---- MODULE Spec2Model ----
(***************************************************************************)
(* A model of libvirt-aws: the AWS-shaped control plane in front of a      *)
(* libvirt host.  The module holds one set of variables and several        *)
(* specifications, one per subsystem:                                      *)
(*                                                                         *)
(*   SpecDNS    the Route 53 surface (hosted zones, change batches) over   *)
(*              the <dns> block of the libvirt network;                    *)
(*   SpecIP     the elastic IP handlers, running interleaved at their      *)
(*              await points;                                              *)
(*   SpecAlloc  allocation and release of elastic IPs over a database that *)
(*              is nearly full;                                            *)
(*   SpecTags   creation and deletion of the tagged resources.             *)
(*                                                                         *)
(* Python strings whose characters the code inspects (DNS names, record    *)
(* values) are sequences of one-character strings, so that split, join,    *)
(* startswith, endswith and slicing are computed as the code computes      *)
(* them.                                                                   *)
(***************************************************************************)
EXTENDS Integers, Sequences, FiniteSets, TLC

VARIABLES
    net_hosts,      \* <dns><host ip=..><hostname>..</hostname></host>, in XML order
    net_txts,       \* <dns><txt name=.. value=../>, in XML order
    net_srvs,       \* <dns><srv service=.. protocol=.. .../>, in XML order
    net_dhcp_start, \* <ip><dhcp><range start=../>, as int(IPv4Address)
    domains,        \* the libvirt domains, by name
    guest_addrs,    \* per domain, the addresses configured inside the guest
    volumes,        \* the volumes of the storage pool, by name
    dns_zones,      \* table dns_zones: set of [id, name]
    dns_changes,    \* table dns_changes: number of rows (append-only, fresh ids)
    ip_addresses,   \* table ip_addresses: set of [allocation_id, ip_address,
                    \*                             association_id, instance_id]
    tags,           \* table tags: set of <<resource_type, resource_name, tagname, tagvalue>>
    uuid_next,      \* uuid.uuid4(): the number of identifiers drawn so far
    dns_calls,      \* number of Route 53 requests served so far
    dns_last,       \* the last Route 53 request and its outcome
    ec2_tasks,      \* the EC2 handler coroutines suspended at an await
    ec2_calls,      \* number of EC2 requests received so far
    ec2_last,       \* the last EC2 request answered and its outcome
    private_ip_addresses, \* table private_ip_addresses as app["db"] reads it: set of
                          \*   [ip_address, instance_id, interface]
    private_committed,    \* table private_ip_addresses as of the last COMMIT
    vol_attachments,      \* the <disk> elements of the domains that name a volume:
                          \*   set of [volume, domain, device]
    known_attachments,    \* volumes._known_attachments: set of
                          \*   [volume, domain, device, status], one per (volume, domain)
    timers,               \* the callbacks loop.call_later(3, ..) has scheduled, in order
    ec2_instance,         \* table ec2_instance as app["db"] reads it: set of
                          \*   [id, state, availability_zone, subnet_id, terminated_at]
    instance_committed,   \* table ec2_instance as of the last COMMIT
    instance_table,       \* the ec2_instance table of the database file:
                          \*   [columns, check]
    virstates,            \* per domain, the virDomainState libvirt reports
    clock,                \* datetime.datetime.now(), in minutes
    http,                 \* the request in handle_request and its outcome
    decoder,              \* the form in parse_args and its outcome
    agent,                \* the call of qemu.agent_exec in progress and its outcome
    guest_ifname,         \* the name the guests give their interface on the network
    instance_disks        \* the instances whose disks are volumes on the host

\* the dispatcher, the argument decoder and the guest agent call, and what
\* the images of the guests fix
reqVars == <<http, decoder, agent, guest_ifname>>

\* what no handler of the EC2 surface but run_instance and
\* terminate_instances changes
dnsReqVars == <<net_hosts, net_txts, net_srvs, dns_zones, dns_changes, dns_calls, dns_last,
               reqVars>>

dnsVars == <<dnsReqVars, instance_disks>>

instVars == <<ec2_instance, instance_committed, instance_table, virstates, clock>>

volVars == <<vol_attachments, known_attachments, timers, instVars>>

dbVars == <<private_ip_addresses, private_committed>>

ec2Vars == <<net_dhcp_start, domains, guest_addrs, volumes, ip_addresses,
             ec2_tasks, ec2_calls, ec2_last, volVars, reqVars, instance_disks>>

\* the libvirt host, the database and the handlers
appVars == <<net_hosts, net_txts, net_srvs, dns_zones, dns_changes, dns_calls, dns_last,
            tags, uuid_next, net_dhcp_start, domains, guest_addrs, volumes, ip_addresses,
            ec2_tasks, ec2_calls, ec2_last, volVars, dbVars, guest_ifname,
            instance_disks>>

vars == <<net_hosts, net_txts, net_srvs, net_dhcp_start, domains, guest_addrs, volumes,
          dns_zones, dns_changes, ip_addresses, tags, uuid_next,
          dns_calls, dns_last, ec2_tasks, ec2_calls, ec2_last, dbVars, volVars, reqVars,
          instance_disks>>

-----------------------------------------------------------------------------
(* sqlite3: the one connection app["db"] every handler shares *)

\* A `with app["db"]:` block left normally commits whatever the connection
\* has written since its last COMMIT, the writes of a handler suspended at an
\* await inside its own block included.
DbCommit ==
    /\ private_committed' = private_ip_addresses
    /\ UNCHANGED private_ip_addresses

\* A `with app["db"]:` block left by an exception rolls the connection back
\* to its last COMMIT.
DbRollback ==
    /\ private_ip_addresses' = private_committed
    /\ UNCHANGED private_committed

\* a handler that leaves no `with app["db"]:` block and calls no commit()
DbUntouched == UNCHANGED dbVars

-----------------------------------------------------------------------------
(* Python str and dict primitives *)

\* s.endswith(suffix)
EndsWith(s, suffix) ==
    /\ Len(suffix) <= Len(s)
    /\ SubSeq(s, Len(s) - Len(suffix) + 1, Len(s)) = suffix

\* s.startswith(prefix)
StartsWith(s, prefix) ==
    /\ Len(prefix) <= Len(s)
    /\ SubSeq(s, 1, Len(prefix)) = prefix

\* s.split(sep, maxsplit) for a one-character sep: at most maxsplit cuts
RECURSIVE Split(_, _, _)
Split(s, sep, maxsplit) ==
    IF maxsplit = 0 \/ ~(\E i \in 1..Len(s) : s[i] = sep)
    THEN <<s>>
    ELSE LET i == CHOOSE i \in 1..Len(s) :
                      s[i] = sep /\ \A j \in 1..(i - 1) : s[j] # sep
         IN  <<SubSeq(s, 1, i - 1)>>
                 \o Split(SubSeq(s, i + 1, Len(s)), sep, maxsplit - 1)

\* sep.join(parts)
RECURSIVE Join(_, _)
Join(parts, sep) ==
    IF Len(parts) = 0 THEN <<>>
    ELSE IF Len(parts) = 1 THEN parts[1]
    ELSE parts[1] \o sep \o Join(Tail(parts), sep)

\* code points of the characters the model uses, in Python's order
CharOrder == <<" ", "\"", ",", ".", "0", "1", "2", "4", "5", "6", "8", ":", "@",
               "_", "a", "b", "e", "h", "m", "n", "s", "t", "w", "x">>

Ord(c) == CHOOSE i \in 1..Len(CharOrder) : CharOrder[i] = c

\* a < b for Python strings
RECURSIVE StrLess(_, _)
StrLess(a, b) ==
    IF Len(b) = 0 THEN FALSE
    ELSE IF Len(a) = 0 THEN TRUE
    ELSE IF a[1] # b[1] THEN Ord(a[1]) < Ord(b[1])
    ELSE StrLess(Tail(a), Tail(b))

\* sorted(values) for a set of strings
RECURSIVE Sorted(_)
Sorted(S) ==
    IF S = {} THEN <<>>
    ELSE LET m == CHOOSE m \in S : \A o \in S \ {m} : StrLess(m, o)
         IN  <<m>> \o Sorted(S \ {m})

\* The insertion-ordered dict of records: a sequence of [key, vals] with
\* pairwise distinct keys; key = <<type, name>>, vals = a set of strings.
DKeys(d) == {d[i].key : i \in 1..Len(d)}

DHas(d, k) == k \in DKeys(d)

DGet(d, k, default) ==
    IF DHas(d, k)
    THEN d[CHOOSE i \in 1..Len(d) : d[i].key = k].vals
    ELSE default

\* d[k] = v: an existing key keeps its position
DSet(d, k, v) ==
    IF DHas(d, k)
    THEN [i \in 1..Len(d) |-> IF d[i].key = k THEN [key |-> k, vals |-> v] ELSE d[i]]
    ELSE Append(d, [key |-> k, vals |-> v])

\* d.pop(k)
DPop(d, k) == SelectSeq(d, LAMBDA e : e.key # k)

\* memo[k].add(v) on a defaultdict(set)
DAdd(d, k, v) == DSet(d, k, DGet(d, k, {}) \cup {v})

\* for x in s: acc = Op(acc, x)
RECURSIVE FoldSeq(_, _, _)
FoldSeq(Op(_, _), acc, s) ==
    IF Len(s) = 0 THEN acc ELSE FoldSeq(Op, Op(acc, Head(s)), Tail(s))

\* The records as a mapping, the order forgotten
AsMap(d) == [k \in DKeys(d) |-> DGet(d, k, {})]

-----------------------------------------------------------------------------
(* objects.py: names and zones *)

fqdn(hostname) ==
    IF ~EndsWith(hostname, <<".">>) THEN hostname \o <<".">> ELSE hostname

in_zone(hostname, zone) ==
    LET h == fqdn(hostname)
    IN  h = zone \/ EndsWith(h, <<".">> \o zone)

\* ipaddress.ip_address(ip).version
IpVersion(ip) == IF \E i \in 1..Len(ip) : ip[i] = ":" THEN 6 ELSE 4

\* <domain name="e"/> of the libvirt network
net_domain == <<"e">>

dns_domain == fqdn(net_domain)

\* the libvirt network's name, the id of the primary zone; sub-zone ids are
\* the positive numbers drawn from uuid_next
net_name == 0

-----------------------------------------------------------------------------
(* objects.py: the DNS record set of the network *)

\* name and value of a DNS SRV record as _extract_records builds them
SrvName(v) ==
    <<"_">> \o v.service \o <<".", "_">> \o v.protocol
        \o (IF v.domain # <<>> THEN <<".">> \o v.domain ELSE <<>>)

SrvValue(v) == Join(<<v.priority, v.weight, v.port, v.target>>, <<" ">>)

\* Network._extract_records: txt, srv and host elements, in the order libvirt
\* writes them
ExtractRecords(txts, srvs, hosts) ==
    LET AddTxt(memo, v) == DAdd(memo, <<"TXT", v.name>>, v.value)
        AddSrv(memo, v) == DAdd(memo, <<"SRV", SrvName(v)>>, SrvValue(v))
        AddHost(memo, v) ==
            LET rectype == IF IpVersion(v.ip) = 4 THEN "A" ELSE "AAAA"
                AddName(m, h) == DAdd(m, <<rectype, fqdn(h)>>, v.ip)
            IN  FoldSeq(AddName, memo, v.hostname)
    IN  FoldSeq(AddHost, FoldSeq(AddSrv, FoldSeq(AddTxt, <<>>, txts), srvs), hosts)

NsPrefix == <<"@", "@", "n", "s", ".">>

\* the values of an NS record, read from the TXT side channel
NsValues(v) ==
    UNION {{SubSeq(item, 2, Len(item) - 1) :
                item \in {Split(r, ",", Len(r))[i] :
                              i \in 1..Len(Split(r, ",", Len(r)))}} : r \in v}

SoaValue(domain) ==
    <<"g", "w", ".">> \o domain
        \o <<" ", "h", "o", "s", "t", "m", "a", "s", "t", "e", "r", ".", "g", "w", ".">>
        \o domain
        \o <<" ", "1", " ", "1", "2", "0", "0", " ", "1", "8", "0", " ",
              "1", "2", "0", "9", "6", "0", "0", " ", "6", "0", "0">>

GwValue(domain) == <<"g", "w", ".">> \o domain

\* Network.get_dns_records over the <dns> block (txts, srvs, hosts); zone = <<>>
\* is the empty string
GetDnsRecords(txts, srvs, hosts, zone, exclude_zones, include_soa_ns) ==
    LET all == ExtractRecords(txts, srvs, hosts)
        Keep(e) ==
            /\ zone # <<>> => in_zone(e.key[2], zone)
            /\ ~(\E z \in exclude_zones : in_zone(e.key[2], z))
        filtered == SelectSeq(all, Keep)
        Conv(records, e) ==
            IF e.key[1] = "TXT" /\ StartsWith(e.key[2], NsPrefix)
            THEN DSet(records, <<"NS", SubSeq(e.key[2], 6, Len(e.key[2]))>>,
                      NsValues(e.vals))
            ELSE DSet(records, e.key, e.vals)
        records == FoldSeq(Conv, <<>>, filtered)
        z == IF zone = <<>> THEN dns_domain ELSE zone
        soa_ns == << [key |-> <<"SOA", z>>, vals |-> {SoaValue(dns_domain)}],
                     [key |-> <<"NS", z>>, vals |-> {GwValue(dns_domain)}] >>
        Upd(d, e) == DSet(d, e.key, e.vals)
    IN  IF include_soa_ns THEN FoldSeq(Upd, soa_ns, records) ELSE records

\* Network.dns_records
DnsRecords(txts, srvs, hosts) == GetDnsRecords(txts, srvs, hosts, <<>>, {}, FALSE)

\* Python iterates a set in an order the program does not control; the model
\* visits the elements in sorted order.
SetOrder(S) == Sorted(S)

TxtXml(name, value) == [typ |-> "txt", xml |-> [name |-> name, value |-> value]]

NsXml(name, values) ==
    TxtXml(NsPrefix \o name,
           Join([i \in 1..Cardinality(values) |->
                    <<"\"">> \o Sorted(values)[i] \o <<"\"">>], <<",">>))

SrvXml(srv, f) ==
    [typ |-> "srv",
     xml |-> [service |-> srv.service, protocol |-> srv.protocol, domain |-> srv.domain,
              priority |-> f[1], weight |-> f[2], port |-> f[3], target |-> f[4]]]

HostAddXml(addr, hosts) == [typ |-> "host", xml |-> [ip |-> addr, hostname |-> hosts]]

HostDelXml(addr) == [typ |-> "host", xml |-> [ip |-> addr]]

\* value.split(" ", maxsplit=4), unpacked into four names
SrvFields(value) == Split(value, " ", 4)

SrvFieldsOk(values) == \A v \in values : Len(SrvFields(v)) = 4

\* {(type, fqdn(name)): values for (type, name), values in records.items()}
NormRecords(records) ==
    LET Put(d, e) == DSet(d, <<e.key[1], fqdn(e.key[2])>>, e.vals)
    IN  FoldSeq(Put, <<>>, records)

\* a fault: add_hosts[value] = [name], which forgets the names already
\* collected for the address
HostsAppend_Overwrite(add_hosts, value, name) == DSet(add_hosts, value, <<name>>)

\* add_hosts[value].append(name)
HostsAppend(add_hosts, value, name) ==
    DSet(add_hosts, value, Append(DGet(add_hosts, value, <<>>), name))

\* The first loop of Network.get_dns_diff, one record of norm_records at a time.
\* st.srv holds the local variables service, protocol and domain, bound once an
\* SRV record has assigned them (st.srv_bound); st.err is a raised exception.
DiffRecord(current, st, e) ==
    LET type == e.key[1]
        name == e.key[2]
        values == e.vals
        prev == DGet(current, e.key, {})
        AddHostName(ah, value) == HostsAppend(ah, value, name)
        parts == Split(name, ".", 3)
        srv == [service |-> parts[1], protocol |-> parts[2],
                domain |-> IF Len(parts) = 2 THEN <<>> ELSE parts[3]]
    IN  IF st.err THEN st
        ELSE IF type \in {"A", "AAAA"} THEN
            [st EXCEPT !.add_hosts = FoldSeq(AddHostName, @, SetOrder(values)),
                       !.mod_hosts = @ \cup prev]
        ELSE IF type = "TXT" THEN
            [st EXCEPT !.deleted = @ \o [i \in 1..Cardinality(prev) |->
                                            TxtXml(name, SetOrder(prev)[i])],
                       !.added = @ \o [i \in 1..Cardinality(values) |->
                                          TxtXml(name, SetOrder(values)[i])]]
        ELSE IF type = "NS" THEN
            [st EXCEPT !.deleted = Append(@, NsXml(name, prev)),
                       !.added = Append(@, NsXml(name, values))]
        ELSE IF type = "SRV" THEN
            IF Len(parts) \notin {2, 3} THEN [st EXCEPT !.err = TRUE]
            ELSE IF ~SrvFieldsOk(prev \cup values)
            THEN [st EXCEPT !.err = TRUE]
            ELSE [st EXCEPT
                    !.srv = srv,
                    !.srv_bound = TRUE,
                    !.deleted = @ \o [i \in 1..Cardinality(prev) |->
                                         SrvXml(srv, SrvFields(SetOrder(prev)[i]))],
                    !.added = @ \o [i \in 1..Cardinality(values) |->
                                       SrvXml(srv, SrvFields(SetOrder(values)[i]))]]
        ELSE [st EXCEPT !.err = TRUE]

\* The second loop of Network.get_dns_diff: a current record that the new
\* record set no longer holds.
DiffDropped(norm_records, st, e) ==
    LET type == e.key[1]
        name == e.key[2]
        values == e.vals
    IN  IF st.err \/ DHas(norm_records, e.key) THEN st
        ELSE IF type = "SRV" THEN
            IF values = {} THEN st
            ELSE IF ~st.srv_bound \/ ~SrvFieldsOk(values)
            THEN [st EXCEPT !.err = TRUE]
            ELSE [st EXCEPT !.deleted = @ \o [i \in 1..Cardinality(values) |->
                                   SrvXml(st.srv, SrvFields(SetOrder(values)[i]))]]
        ELSE IF type = "TXT" THEN
            [st EXCEPT !.deleted = @ \o [i \in 1..Cardinality(values) |->
                                            TxtXml(name, SetOrder(values)[i])]]
        ELSE IF type = "NS" THEN
            [st EXCEPT !.deleted = Append(@, NsXml(name, values))]
        ELSE IF type \in {"A", "AAAA"} THEN
            [st EXCEPT !.mod_hosts = @ \cup values]
        ELSE [st EXCEPT !.err = TRUE]

\* the end of Network.get_dns_diff: the host elements follow the others, and
\* the tuple (added, deleted) is returned
DiffResult(st) ==
    [err |-> st.err,
     added |-> st.added \o [i \in 1..Len(st.add_hosts) |->
                  HostAddXml(st.add_hosts[i].key, st.add_hosts[i].vals)],
     deleted |-> st.deleted \o [i \in 1..Cardinality(st.mod_hosts) |->
                  HostDelXml(SetOrder(st.mod_hosts)[i])]]

DiffLoops(current, norm_records) ==
    LET st0 == [add_hosts |-> <<>>, mod_hosts |-> {}, added |-> <<>>,
                deleted |-> <<>>, srv_bound |-> FALSE,
                srv |-> [service |-> <<>>, protocol |-> <<>>, domain |-> <<>>],
                err |-> FALSE]
        Loop1(st, e) == DiffRecord(current, st, e)
        Loop2(st, e) == DiffDropped(norm_records, st, e)
    IN  FoldSeq(Loop2, FoldSeq(Loop1, st0, norm_records), current)

\* Network.get_dns_diff(records) on the network (txts, srvs, hosts): the
\* tuple (added, deleted) it returns, or err when it raises.
GetDnsDiff(txts, srvs, hosts, records) ==
    DiffResult(DiffLoops(DnsRecords(txts, srvs, hosts), NormRecords(records)))

-----------------------------------------------------------------------------
(* libvirt: virNetwork.update(command, section, -1, xml) on the <dns> block. *)
(* DELETE removes the elements the XML matches, ADD_LAST appends the element.*)

NetUpdate(net, command, op) ==
    IF op.typ = "txt" THEN
        [net EXCEPT !.txts = IF command = "DELETE"
                             THEN SelectSeq(@, LAMBDA t : t # op.xml)
                             ELSE Append(@, op.xml)]
    ELSE IF op.typ = "srv" THEN
        [net EXCEPT !.srvs = IF command = "DELETE"
                             THEN SelectSeq(@, LAMBDA t : t # op.xml)
                             ELSE Append(@, op.xml)]
    ELSE
        [net EXCEPT !.hosts = IF command = "DELETE"
                              THEN SelectSeq(@, LAMBDA h : h.ip # op.xml.ip)
                              ELSE Append(@, op.xml)]

\* the network after the first n updates of a sequence of <<command, op>>
RECURSIVE NetUpdates(_, _, _)
NetUpdates(net, updates, n) ==
    IF n = 0 THEN net
    ELSE NetUpdates(NetUpdate(net, updates[1][1], updates[1][2]), Tail(updates), n - 1)

-----------------------------------------------------------------------------
(* The requests the Route 53 clients send *)

\* the number of Route 53 requests a run serves
MaxDnsCalls == 2

Str_wE == <<"w", ".", "e", ".">>
Str_wS == <<"w", ".", "s", ".", "e", ".">>
Str_wT == <<"w", ".", "t", ".", "s", ".", "e", ".">>
Str_sE == <<"s", ".", "e", ".">>
Str_tS == <<"t", ".", "s", ".", "e", ".">>
Str_sX == <<"s", ".", "x", ".">>
Str_ht == <<"h", ".", "t">>
Str_htE == <<"_", "h", ".", "_", "t", ".", "e", ".">>
Ip4a == <<"1", ".", "0", ".", "0", ".", "4">>
Ip4b == <<"1", ".", "0", ".", "0", ".", "5">>
Ip6a == <<":", ":", "6">>
SrvVal == <<"0", " ", "0", " ", "8", " ", "x", ".">>
NsA == <<"m", ".", "e", ".">>
NsB == <<"n", ".", "e", ".">>

Change(action, type, name, values) ==
    [Action |-> action, Type |-> type, Name |-> name, Values |-> values]

A_wE == <<"A", Str_wE, {Ip4a}>>
A_wE2 == <<"A", Str_wE, {Ip4a, Ip4b}>>
A_wS == <<"A", Str_wS, {Ip4a}>>
AAAA_wE == <<"AAAA", Str_wE, {Ip6a}>>
TXT_wT == <<"TXT", Str_wT, {<<"a">>}>>
TXT_wT2 == <<"TXT", Str_wT, {<<"a">>, <<"b">>}>>
NS_sE == <<"NS", Str_sE, {NsA, NsB}>>
SRV_ht == <<"SRV", Str_ht, {SrvVal}>>
SRV_htE == <<"SRV", Str_htE, {SrvVal}>>

Create(r) == Change("CREATE", r[1], r[2], r[3])
Delete(r) == Change("DELETE", r[1], r[2], r[3])
Upsert(r) == Change("UPSERT", r[1], r[2], r[3])

\* change batches of one change
Batches1 ==
    {<<c>> : c \in
        {Create(A_wE), Delete(A_wE), Upsert(A_wE), Upsert(A_wE2), Delete(A_wE2),
         Upsert(A_wS), Create(AAAA_wE), Create(TXT_wT), Upsert(TXT_wT2),
         Delete(TXT_wT), Create(NS_sE), Delete(NS_sE), Create(SRV_ht), Create(SRV_htE),
         Change("PATCH", "A", Str_wE, {Ip4a})}}

\* change batches of two and three changes
Batches2 ==
    {<<Upsert(A_wE), Upsert(A_wS)>>, <<Upsert(A_wS), Upsert(A_wE)>>,
     <<Upsert(A_wE2), Upsert(TXT_wT)>>, <<Upsert(TXT_wT), Upsert(A_wE2)>>,
     <<Upsert(NS_sE), Upsert(AAAA_wE)>>, <<Upsert(AAAA_wE), Upsert(NS_sE)>>,
     <<Delete(A_wE), Create(A_wE)>>, <<Create(A_wE), Create(A_wE)>>,
     <<Create(A_wS), Delete(A_wS)>>, <<Upsert(A_wS), Upsert(TXT_wT)>>,
     <<Upsert(TXT_wT), Upsert(A_wS)>>,
     <<Upsert(A_wE), Upsert(A_wS), Upsert(TXT_wT2)>>}

Batches == Batches1 \cup Batches2

\* the batches sent under the id of a sub-zone
SubzoneBatches == {<<Upsert(A_wS)>>, <<Create(TXT_wT)>>, <<Delete(TXT_wT)>>}

ZoneNames == {Str_sE, Str_tS, Str_sX}

TagPairs == {<<"k", "v">>, <<"k", "w">>}

-----------------------------------------------------------------------------
(* handlers/dns.py *)

\* _get_subzones: the names of the persisted sub-zones
SubzoneNames == {z.name : z \in dns_zones}

ZoneIds == {z.id : z \in dns_zones}

\* _get_subzone(zone_id)[1]
SubzoneName(zone_id) == (CHOOSE z \in dns_zones : z.id = zone_id).name

\* a fault: the other sub-zones are not excluded
GetRecords_NoExclusion(zone_name, include_soa_ns) ==
    GetDnsRecords(net_txts, net_srvs, net_hosts, zone_name, {}, include_soa_ns)

\* _get_records(zone_name, net, app, include_soa_ns)
GetRecords(zone_name, include_soa_ns) ==
    GetDnsRecords(net_txts, net_srvs, net_hosts, zone_name,
                  SubzoneNames \ {zone_name}, include_soa_ns)

\* a fault: CREATE does not look for the key in the working table
CheckChange_CreateUnchecked(table, change) ==
    LET key == <<change.Type, change.Name>>
        values == change.Values
    IN  IF change.Action \in {"CREATE", "UPSERT"} THEN
            [code |-> "ok", table |-> DSet(table, key, values)]
        ELSE IF change.Action = "DELETE" THEN
            IF DHas(table, key) /\ DGet(table, key, {}) = values
            THEN [code |-> "ok", table |-> DPop(table, key)]
            ELSE [code |-> "InvalidChangeBatch", table |-> table]
        ELSE [code |-> "InvalidInput", table |-> table]

\* One pass of the loop of change_resource_record_sets over the changes of
\* the batch: the working table after the change, or the error raised.
CheckChange(table, change) ==
    LET key == <<change.Type, change.Name>>
        values == change.Values
    IN  IF change.Action = "CREATE" THEN
            IF DHas(table, key)
            THEN [code |-> "InvalidChangeBatch", table |-> table]
            ELSE [code |-> "ok", table |-> DSet(table, key, values)]
        ELSE IF change.Action = "DELETE" THEN
            IF DHas(table, key) /\ DGet(table, key, {}) = values
            THEN [code |-> "ok", table |-> DPop(table, key)]
            ELSE [code |-> "InvalidChangeBatch", table |-> table]
        ELSE IF change.Action = "UPSERT" THEN
            [code |-> "ok", table |-> DSet(table, key, values)]
        ELSE [code |-> "InvalidInput", table |-> table]

\* The loop: the working table it ends with, or the first error.
RECURSIVE CheckChanges(_, _)
CheckChanges(table, changes) ==
    IF Len(changes) = 0 THEN [code |-> "ok", table |-> table]
    ELSE LET checked == CheckChange(table, Head(changes))
         IN  IF checked.code # "ok" THEN checked
             ELSE CheckChanges(checked.table, Tail(changes))

\* a fault: the added elements are sent before the removed ones
UpdateCalls_AddsFirst(added, removed) ==
    [i \in 1..Len(added) |-> <<"ADD_LAST", added[i]>>]
        \o [i \in 1..Len(removed) |-> <<"DELETE", removed[i]>>]

\* the libvirt updates change_resource_record_sets issues for (added, removed):
\* every removed element, then every added one
UpdateCalls(added, removed) ==
    [i \in 1..Len(removed) |-> <<"DELETE", removed[i]>>]
        \o [i \in 1..Len(added) |-> <<"ADD_LAST", added[i]>>]

\* the updates change_resource_record_sets goes on to issue for a diff, or
\* the error the diff raised
DiffPlan(diff) ==
    IF diff.err THEN [code |-> "InternalError", updates |-> <<>>]
    ELSE [code |-> "ok", updates |-> UpdateCalls(diff.added, diff.deleted)]

CheckedPlan(txts, srvs, hosts, checked) ==
    IF checked.code # "ok" THEN [code |-> checked.code, updates |-> <<>>]
    ELSE DiffPlan(GetDnsDiff(txts, srvs, hosts, checked.table))

\* change_resource_record_sets from the parsing of the batch up to its first
\* libvirt call: the error it raises before that, or the updates it goes on
\* to issue
ChangePlan(txts, srvs, hosts, changes) ==
    CheckedPlan(txts, srvs, hosts,
                CheckChanges(DnsRecords(txts, srvs, hosts), changes))

Net == [txts |-> net_txts, srvs |-> net_srvs, hosts |-> net_hosts]

\* What a Route 53 handler does to the connection: _get_subzone raises
\* NoSuchHostedZone inside its `with` block; a request on a sub-zone leaves that
\* block normally, as does every request that reads the sub-zones or writes a
\* row; a request on the primary zone that fails before that opens no block.
DnsDb ==
    IF dns_last'.code = "NoSuchHostedZone" THEN DbRollback
    ELSE IF dns_last'.code = "ok" \/ dns_last'.zone # net_name THEN DbCommit
    ELSE DbUntouched

\* The end of a ChangeResourceRecordSets request that has issued the first
\* `calls` updates of its plan, which left the network as `after`.
ChangeReply(zone_id, changes, plan, calls, done, after) ==
    /\ net_txts' = after.txts
    /\ net_srvs' = after.srvs
    /\ net_hosts' = after.hosts
    /\ dns_changes' = IF done THEN dns_changes + 1 ELSE dns_changes
    /\ uuid_next' = IF done THEN uuid_next + 1 ELSE uuid_next
    /\ dns_last' = [op |-> "ChangeResourceRecordSets",
                    zone |-> zone_id, batch |-> changes,
                    code |-> IF plan.code = "ok" /\ ~done
                             THEN "InternalError" ELSE plan.code,
                    issued |-> [i \in 1..calls |-> plan.updates[i][1]],
                    listed |-> {}]

\* libvirt may refuse any update: the first n updates of the plan are applied,
\* and with n below their number the next one raises, which ends the request
\* with InternalError.
ChangeUpdates(zone_id, changes, plan) ==
    \E n \in 0..Len(plan.updates) :
        ChangeReply(zone_id, changes, plan,
                    IF n < Len(plan.updates) THEN n + 1 ELSE n,
                    plan.code = "ok" /\ n = Len(plan.updates),
                    NetUpdates(Net, plan.updates, n))

\* ChangeResourceRecordSets
ChangeResourceRecordSets(zone_id, changes) ==
    /\ dns_calls < MaxDnsCalls
    /\ dns_calls' = dns_calls + 1
    /\ IF zone_id # net_name /\ zone_id \notin ZoneIds
       THEN /\ dns_last' = [op |-> "ChangeResourceRecordSets", zone |-> zone_id,
                            batch |-> changes, code |-> "NoSuchHostedZone",
                            issued |-> <<>>, listed |-> {}]
            /\ UNCHANGED <<net_hosts, net_txts, net_srvs, dns_changes, uuid_next>>
       ELSE ChangeUpdates(zone_id, changes,
                          ChangePlan(net_txts, net_srvs, net_hosts, changes))
    /\ UNCHANGED <<dns_zones, tags>>
    /\ UNCHANGED ec2Vars
    /\ DnsDb

\* CreateHostedZone
CreateHostedZone(name) ==
    /\ dns_calls < MaxDnsCalls
    /\ dns_calls' = dns_calls + 1
    /\ IF ~EndsWith(name, <<".">> \o dns_domain)
       THEN /\ dns_last' = [op |-> "CreateHostedZone", zone |-> net_name, batch |-> <<>>,
                            code |-> "InvalidParameterValue", issued |-> <<>>,
                            listed |-> {}]
            /\ UNCHANGED <<dns_zones, dns_changes, uuid_next>>
       ELSE /\ dns_zones' = dns_zones \cup {[id |-> uuid_next + 1, name |-> name]}
            /\ dns_changes' = dns_changes + 1
            /\ uuid_next' = uuid_next + 2
            /\ dns_last' = [op |-> "CreateHostedZone", zone |-> uuid_next + 1, batch |-> <<>>,
                            code |-> "ok", issued |-> <<>>, listed |-> {}]
    /\ UNCHANGED <<net_hosts, net_txts, net_srvs, tags>>
    /\ UNCHANGED ec2Vars
    /\ DnsDb

\* a fault: the records are read with include_soa_ns left at its default
DeleteCheck_WithSoaNs(zone_id) ==
    IF zone_id = net_name THEN "InvalidDomainName"
    ELSE IF zone_id \notin ZoneIds THEN "NoSuchHostedZone"
    ELSE IF GetRecords(SubzoneName(zone_id), TRUE) # <<>> THEN "HostedZoneNotEmpty"
    ELSE "ok"

\* the error delete_hosted_zone raises for zone_id, or "ok"
DeleteCheck(zone_id) ==
    IF zone_id = net_name THEN "InvalidDomainName"
    ELSE IF zone_id \notin ZoneIds THEN "NoSuchHostedZone"
    ELSE IF GetRecords(SubzoneName(zone_id), FALSE) # <<>> THEN "HostedZoneNotEmpty"
    ELSE "ok"

\* DeleteHostedZone
DeleteHostedZone(zone_id) ==
    /\ dns_calls < MaxDnsCalls
    /\ dns_calls' = dns_calls + 1
    /\ dns_last' = [op |-> "DeleteHostedZone", zone |-> zone_id, batch |-> <<>>,
                    code |-> DeleteCheck(zone_id), issued |-> <<>>, listed |-> {}]
    /\ IF DeleteCheck(zone_id) # "ok"
       THEN UNCHANGED <<dns_zones, dns_changes, tags, uuid_next>>
       ELSE /\ tags' = {t \in tags : ~(t[1] = "hostedzone" /\ t[2] = zone_id)}
            /\ dns_zones' = {z \in dns_zones : z.id # zone_id}
            /\ dns_changes' = dns_changes + 1
            /\ uuid_next' = uuid_next + 1
    /\ UNCHANGED <<net_hosts, net_txts, net_srvs>>
    /\ UNCHANGED ec2Vars
    /\ DnsDb

\* ChangeTagsForResource on a hosted zone: AddTags of (key, value) pairs, then
\* RemoveTagKeys
ChangeTagsForResource(res_id, add_tags, remove_tags) ==
    /\ dns_calls < MaxDnsCalls
    /\ dns_calls' = dns_calls + 1
    /\ IF res_id # net_name /\ res_id \notin ZoneIds
       THEN /\ dns_last' = [op |-> "ChangeTagsForResource", zone |-> res_id, batch |-> <<>>,
                            code |-> "NoSuchHostedZone", issued |-> <<>>, listed |-> {}]
            /\ UNCHANGED tags
       ELSE /\ dns_last' = [op |-> "ChangeTagsForResource", zone |-> res_id, batch |-> <<>>,
                            code |-> "ok", issued |-> <<>>, listed |-> {}]
            /\ tags' =
                 LET keys == {t[1] : t \in add_tags}
                     kept == {t \in tags : ~(t[1] = "hostedzone" /\ t[2] = res_id
                                             /\ t[3] \in keys)}
                     upserted == kept \cup {<<"hostedzone", res_id, t[1], t[2]>> :
                                               t \in add_tags}
                 IN  {t \in upserted : ~(t[1] = "hostedzone" /\ t[2] = res_id
                                         /\ t[3] \in remove_tags)}
    /\ UNCHANGED <<net_hosts, net_txts, net_srvs, dns_zones, dns_changes, uuid_next>>
    /\ UNCHANGED ec2Vars
    /\ DnsDb

\* the records list_resource_record_sets returns for zone_id (no name, type
\* or maxitems argument)
ListedRecords(zone_id) ==
    LET zone_name == IF zone_id = net_name THEN dns_domain ELSE SubzoneName(zone_id)
        records == GetRecords(zone_name, TRUE)
    IN  {records[i] : i \in 1..Len(records)}

\* ListResourceRecordSets
ListResourceRecordSets(zone_id) ==
    /\ dns_calls < MaxDnsCalls
    /\ dns_calls' = dns_calls + 1
    /\ dns_last' = IF zone_id # net_name /\ zone_id \notin ZoneIds
                   THEN [op |-> "ListResourceRecordSets", zone |-> zone_id,
                         batch |-> <<>>, code |-> "NoSuchHostedZone", issued |-> <<>>, listed |-> {}]
                   ELSE [op |-> "ListResourceRecordSets", zone |-> zone_id,
                         batch |-> <<>>, code |-> "ok", issued |-> <<>>,
                         listed |-> ListedRecords(zone_id)]
    /\ UNCHANGED <<net_hosts, net_txts, net_srvs, dns_zones, dns_changes, tags, uuid_next>>
    /\ UNCHANGED ec2Vars
    /\ DnsDb

-----------------------------------------------------------------------------
(* handlers/ips.py: elastic IP addresses *)

\* Identifiers (uuid4 values, domain names) and IPv4 addresses
\* (int(IPv4Address)) are integers; NULL is the SQL NULL of a nullable column
\* and the None of a missing request argument.
NULL == 0

PUBLIC_IP_BLOCK_SIZE == 16

\* the number of EC2 requests a behaviour receives
MaxEc2Calls == 3

\* Network.ip_network: the network address of the <ip address=.. prefix=..> block
ip_network_address == 0

\* Network.static_ip_range: the second host of the network, and the start of
\* the DHCP range
static_ip_range == <<ip_network_address + 2, net_dhcp_start>>

\* max(a, b)
Max(a, b) == IF a >= b THEN a ELSE b

\* a fault: the block of PUBLIC_IP_BLOCK_SIZE addresses is not applied
AllocateRange_StaticOnly ==
    static_ip_range[1] .. (static_ip_range[2] - 1)

\* range(ip_range_start, ip_range_end) of allocate_address
AllocateRange ==
    static_ip_range[1] ..
        (Max(static_ip_range[1] + PUBLIC_IP_BLOCK_SIZE, static_ip_range[2]) - 1)

\* the addresses of the range the for loop of allocate_address does not find
\* in `existing`
FreeAddresses == AllocateRange \ {r.ip_address : r \in ip_addresses}

\* the address the for loop breaks at: the first of the range not in `existing`
FirstFree(free) == CHOOSE a \in free : \A b \in free : a <= b

\* the answer to an EC2 request
Ec2Reply(op, code, allocation_id, association_id, instance_id, ip_address) ==
    ec2_last' = [op |-> op, code |-> code, allocation_id |-> allocation_id,
                 association_id |-> association_id, instance_id |-> instance_id,
                 ip_address |-> ip_address]

\* a request is received
Ec2Call ==
    /\ ec2_calls < MaxEc2Calls
    /\ ec2_calls' = ec2_calls + 1

\* AllocateAddress.  args.Address: an Address argument is present;
\* args.Domain: the Domain argument ("" when absent); args.Tags: the
\* (key, value) pairs of the TagSpecification.
AllocateAddress(args) ==
    /\ Ec2Call
    /\ IF args.Address \/ (args.Domain # "" /\ args.Domain # "vpc")
       THEN /\ Ec2Reply("AllocateAddress", "InvalidParameterValue", NULL, NULL, NULL, NULL)
            /\ UNCHANGED <<ip_addresses, tags, uuid_next>>
       ELSE IF FreeAddresses = {}
       THEN /\ Ec2Reply("AllocateAddress", "AddressLimitExceeded", NULL, NULL, NULL, NULL)
            /\ UNCHANGED <<ip_addresses, tags, uuid_next>>
       ELSE LET address == FirstFree(FreeAddresses)
                rows == {<<"ip_address", address, t[1], t[2]>> : t \in args.Tags}
            IN  IF \E t \in tags, n \in rows : t[1] = n[1] /\ t[2] = n[2] /\ t[3] = n[3]
                THEN \* UNIQUE (resource_name, resource_type, tagname)
                     /\ Ec2Reply("AllocateAddress", "InternalError", NULL, NULL, NULL, NULL)
                     /\ UNCHANGED <<ip_addresses, tags, uuid_next>>
                ELSE /\ tags' = tags \cup rows
                     /\ ip_addresses' = ip_addresses \cup
                            {[allocation_id |-> uuid_next + 1, ip_address |-> address,
                              association_id |-> NULL, instance_id |-> NULL]}
                     /\ uuid_next' = uuid_next + 1
                     /\ Ec2Reply("AllocateAddress", "ok", uuid_next + 1, NULL, NULL, address)
    /\ UNCHANGED <<net_dhcp_start, domains, guest_addrs, volumes, ec2_tasks>>
    /\ UNCHANGED dnsVars
    /\ UNCHANGED volVars
    /\ IF ec2_last'.code = "ok" THEN DbCommit ELSE DbUntouched

\* SELECT instance_id, ip_address FROM ip_addresses WHERE allocation_id = ?
RowsByAllocation(alloc_id) == {r \in ip_addresses : r.allocation_id = alloc_id}

\* SELECT instance_id, ip_address FROM ip_addresses WHERE association_id = ?
\* (a comparison with NULL selects nothing)
RowsByAssociation(assoc_id) ==
    {r \in ip_addresses : assoc_id # NULL /\ r.association_id = assoc_id}

\* a handler coroutine suspended at an await
Task(op, pc, alloc_id, assoc_id, instance_id, cur_instance_id, ip_address) ==
    [op |-> op, pc |-> pc, alloc_id |-> alloc_id, assoc_id |-> assoc_id,
     instance_id |-> instance_id, cur_instance_id |-> cur_instance_id,
     ip_address |-> ip_address]

\* the tasks without the i-th
Finished(i) == SubSeq(ec2_tasks, 1, i - 1) \o SubSeq(ec2_tasks, i + 1, Len(ec2_tasks))

\* the tasks with the i-th moved to pc
Resumed(i, pc) == [ec2_tasks EXCEPT ![i].pc = pc]

\* a fault: the address is added to the new domain without being removed
\* from the domain the row names
FirstAwait_AdditionFirst(row) == "new_add"

\* the first agent command of associate_address: "ip addr del" in the domain
\* the row names when libvirt knows it, "ip addr add" in the new domain
\* otherwise
FirstAwait(row) ==
    IF row.instance_id # NULL /\ row.instance_id \in domains
    THEN "cur_del" ELSE "new_add"

\* AssociateAddress, from the request to its first await
AssociateAddress(alloc_id, instance_id) ==
    /\ Ec2Call
    /\ IF alloc_id = NULL
       THEN /\ Ec2Reply("AssociateAddress", "InvalidParameterValue", alloc_id, NULL,
                        instance_id, NULL)
            /\ UNCHANGED <<ec2_tasks, uuid_next>>
       ELSE IF instance_id \notin domains
       THEN /\ Ec2Reply("AssociateAddress", "InvalidInstanceID.NotFound", alloc_id, NULL,
                        instance_id, NULL)
            /\ UNCHANGED <<ec2_tasks, uuid_next>>
       ELSE /\ uuid_next' = uuid_next + 1
            /\ IF RowsByAllocation(alloc_id) = {}
               THEN /\ Ec2Reply("AssociateAddress", "InvalidAddressID.NotFound", alloc_id,
                                NULL, instance_id, NULL)
                    /\ UNCHANGED ec2_tasks
               ELSE LET row == CHOOSE r \in RowsByAllocation(alloc_id) : TRUE
                    IN  /\ ec2_tasks' = Append(ec2_tasks,
                               Task("AssociateAddress", FirstAwait(row), alloc_id, uuid_next + 1, instance_id,
                                    row.instance_id, row.ip_address))
                        /\ UNCHANGED ec2_last
    /\ UNCHANGED <<net_dhcp_start, domains, guest_addrs, volumes, ip_addresses, tags>>
    /\ UNCHANGED dnsVars
    /\ UNCHANGED volVars
    /\ IF alloc_id = NULL \/ instance_id \notin domains THEN DbUntouched
       ELSE IF RowsByAllocation(alloc_id) = {} THEN DbRollback ELSE DbCommit

\* a fault: the UPDATE of associate_address sets association_id alone
AssociateUpdate_AssociationOnly(task) ==
    {IF r.allocation_id = task.alloc_id
     THEN [r EXCEPT !.association_id = task.assoc_id]
     ELSE r : r \in ip_addresses}

\* UPDATE ip_addresses SET association_id = ?, instance_id = ?
\* WHERE allocation_id = ?
AssociateUpdate(task) ==
    {IF r.allocation_id = task.alloc_id
     THEN [r EXCEPT !.association_id = task.assoc_id, !.instance_id = task.instance_id]
     ELSE r : r \in ip_addresses}

\* UPDATE ip_addresses SET association_id = NULL, instance_id = NULL
\* WHERE association_id = ?
DisassociateUpdate(assoc_id) ==
    {IF r.association_id = assoc_id
     THEN [r EXCEPT !.association_id = NULL, !.instance_id = NULL]
     ELSE r : r \in ip_addresses}

\* DisassociateAddress, from the request to its await, or to its end when the
\* row names no instance or an instance libvirt does not know
DisassociateAddress(assoc_id) ==
    /\ Ec2Call
    /\ IF assoc_id = NULL
       THEN /\ Ec2Reply("DisassociateAddress", "InvalidParameterValue", NULL, assoc_id,
                        NULL, NULL)
            /\ UNCHANGED <<ec2_tasks, ip_addresses>>
       ELSE IF RowsByAssociation(assoc_id) = {}
       THEN /\ Ec2Reply("DisassociateAddress", "InvalidAssociationID.NotFound", NULL,
                        assoc_id, NULL, NULL)
            /\ UNCHANGED <<ec2_tasks, ip_addresses>>
       ELSE LET row == CHOOSE r \in RowsByAssociation(assoc_id) : TRUE
            IN  IF row.instance_id # NULL /\ row.instance_id \in domains
                THEN /\ ec2_tasks' = Append(ec2_tasks,
                            Task("DisassociateAddress", "cur_del", row.allocation_id,
                                 assoc_id, NULL, row.instance_id, row.ip_address))
                     /\ UNCHANGED <<ec2_last, ip_addresses>>
                ELSE /\ ip_addresses' = DisassociateUpdate(assoc_id)
                     /\ Ec2Reply("DisassociateAddress", "ok", row.allocation_id, assoc_id,
                                 row.instance_id, row.ip_address)
                     /\ UNCHANGED ec2_tasks
    /\ UNCHANGED <<net_dhcp_start, domains, guest_addrs, volumes, tags, uuid_next>>
    /\ UNCHANGED dnsVars
    /\ UNCHANGED volVars
    /\ IF assoc_id = NULL THEN DbUntouched
       ELSE IF RowsByAssociation(assoc_id) = {} THEN DbRollback ELSE DbCommit

\* the dev argument of "ip addr del": associate_address passes the interface
\* _find_interface returns, disassociate_address passes "vif0"
DelDev(task) ==
    IF task.op = "DisassociateAddress" THEN "vif0" ELSE guest_ifname

\* The guest agent runs "ip addr del <ip_address> dev <iface>" in the domain
\* the row named when the request read it.  The command removes the address
\* when iface is the interface that has it, and fails otherwise (its return
\* code is not read); _find_interface or the agent may raise instead, which
\* ends the request.
GuestDel(i) ==
    /\ i \in 1..Len(ec2_tasks)
    /\ ec2_tasks[i].pc = "cur_del"
    /\ LET task == ec2_tasks[i]
       IN  \E outcome \in {"removed", "kept", "raised"} :
              /\ (outcome = "removed") => (DelDev(task) = guest_ifname)
              /\ (outcome = "kept") =>
                    \/ DelDev(task) # guest_ifname
                    \/ task.ip_address \notin guest_addrs[task.cur_instance_id]
              /\ guest_addrs' =
                    IF outcome = "removed"
                    THEN [guest_addrs EXCEPT ![task.cur_instance_id] = @ \ {task.ip_address}]
                    ELSE guest_addrs
              /\ IF outcome = "raised"
                 THEN /\ ec2_tasks' = Finished(i)
                      /\ Ec2Reply(task.op, "InternalError", task.alloc_id, task.assoc_id,
                                  task.instance_id, task.ip_address)
                 ELSE /\ ec2_tasks' = Resumed(i, IF task.op = "AssociateAddress"
                                                 THEN "new_add" ELSE "update")
                      /\ UNCHANGED ec2_last
    /\ UNCHANGED <<net_dhcp_start, domains, volumes, ip_addresses, tags, uuid_next, ec2_calls>>
    /\ UNCHANGED dnsVars
    /\ UNCHANGED volVars
    /\ DbUntouched

\* a fault: a failed "ip addr add" clears the association the row records
GuestAdd_ClearsOnFailure(i) ==
    /\ i \in 1..Len(ec2_tasks)
    /\ ec2_tasks[i].pc = "new_add"
    /\ LET task == ec2_tasks[i]
       IN  \E outcome \in {"added", "failed"} :
              IF outcome = "added" /\ task.ip_address \notin guest_addrs[task.instance_id]
              THEN /\ guest_addrs' = [guest_addrs EXCEPT ![task.instance_id] =
                                         @ \cup {task.ip_address}]
                   /\ ec2_tasks' = Resumed(i, "update")
                   /\ UNCHANGED ec2_last
              ELSE /\ ec2_tasks' = Finished(i)
                   /\ Ec2Reply(task.op, "InternalError", task.alloc_id, task.assoc_id,
                               task.instance_id, task.ip_address)
                   /\ UNCHANGED guest_addrs
    /\ ip_addresses' =
          IF ec2_tasks' = Finished(i)
          THEN {IF r.allocation_id = ec2_tasks[i].alloc_id
                THEN [r EXCEPT !.association_id = NULL, !.instance_id = NULL]
                ELSE r : r \in ip_addresses}
          ELSE ip_addresses
    /\ UNCHANGED <<net_dhcp_start, domains, volumes, tags, uuid_next, ec2_calls>>
    /\ UNCHANGED dnsVars
    /\ UNCHANGED volVars
    /\ DbUntouched

\* The guest agent runs "ip addr add <ip_address> dev <iface>" in the new
\* domain.  The command fails on an address the guest already has; any failure
\* ends the request with InternalError.
GuestAdd(i) ==
    /\ i \in 1..Len(ec2_tasks)
    /\ ec2_tasks[i].pc = "new_add"
    /\ LET task == ec2_tasks[i]
       IN  \E outcome \in {"added", "failed"} :
              IF outcome = "added" /\ task.ip_address \notin guest_addrs[task.instance_id]
              THEN /\ guest_addrs' = [guest_addrs EXCEPT ![task.instance_id] =
                                         @ \cup {task.ip_address}]
                   /\ ec2_tasks' = Resumed(i, "update")
                   /\ UNCHANGED ec2_last
              ELSE /\ ec2_tasks' = Finished(i)
                   /\ Ec2Reply(task.op, "InternalError", task.alloc_id, task.assoc_id,
                               task.instance_id, task.ip_address)
                   /\ UNCHANGED guest_addrs
    /\ UNCHANGED <<net_dhcp_start, domains, volumes, ip_addresses, tags, uuid_next, ec2_calls>>
    /\ UNCHANGED dnsVars
    /\ UNCHANGED volVars
    /\ DbUntouched

\* associate_address resumes after the agent's answer and updates the row
AssociateFinish(i) ==
    /\ i \in 1..Len(ec2_tasks)
    /\ ec2_tasks[i].pc = "update"
    /\ ec2_tasks[i].op = "AssociateAddress"
    /\ ip_addresses' = AssociateUpdate(ec2_tasks[i])
    /\ Ec2Reply("AssociateAddress", "ok", ec2_tasks[i].alloc_id, ec2_tasks[i].assoc_id,
                ec2_tasks[i].instance_id, ec2_tasks[i].ip_address)
    /\ ec2_tasks' = Finished(i)
    /\ UNCHANGED <<net_dhcp_start, domains, guest_addrs, volumes, tags, uuid_next, ec2_calls>>
    /\ UNCHANGED dnsVars
    /\ UNCHANGED volVars
    /\ DbCommit

\* disassociate_address resumes after the agent's answer and updates the row
DisassociateFinish(i) ==
    /\ i \in 1..Len(ec2_tasks)
    /\ ec2_tasks[i].pc = "update"
    /\ ec2_tasks[i].op = "DisassociateAddress"
    /\ ip_addresses' = DisassociateUpdate(ec2_tasks[i].assoc_id)
    /\ Ec2Reply("DisassociateAddress", "ok", ec2_tasks[i].alloc_id, ec2_tasks[i].assoc_id,
                ec2_tasks[i].cur_instance_id, ec2_tasks[i].ip_address)
    /\ ec2_tasks' = Finished(i)
    /\ UNCHANGED <<net_dhcp_start, domains, guest_addrs, volumes, tags, uuid_next, ec2_calls>>
    /\ UNCHANGED dnsVars
    /\ UNCHANGED volVars
    /\ DbCommit

\* a fault: the instance the row records is not looked at
ReleaseCheck_InstanceIgnored(alloc_id) ==
    IF alloc_id = NULL THEN "InvalidParameterValue"
    ELSE IF RowsByAllocation(alloc_id) = {} THEN "InvalidAddress.NotFound"
    ELSE "ok"

\* the error release_address raises for alloc_id, or "ok"
ReleaseCheck(alloc_id) ==
    IF alloc_id = NULL THEN "InvalidParameterValue"
    ELSE IF RowsByAllocation(alloc_id) = {} THEN "InvalidAddress.NotFound"
    ELSE IF \E r \in RowsByAllocation(alloc_id) : r.instance_id # NULL
    THEN "InvalidIPAddress.InUse"
    ELSE "ok"

\* ReleaseAddress
ReleaseAddress(alloc_id) ==
    /\ Ec2Call
    /\ IF ReleaseCheck(alloc_id) # "ok"
       THEN /\ Ec2Reply("ReleaseAddress", ReleaseCheck(alloc_id), alloc_id, NULL, NULL, NULL)
            /\ UNCHANGED <<ip_addresses, tags>>
       ELSE LET row == CHOOSE r \in RowsByAllocation(alloc_id) : TRUE
            IN  /\ tags' = {t \in tags : ~(t[1] = "ip_address" /\ t[2] = row.ip_address)}
                /\ ip_addresses' = ip_addresses \ {row}
                /\ Ec2Reply("ReleaseAddress", "ok", alloc_id, NULL, NULL, row.ip_address)
    /\ UNCHANGED <<net_dhcp_start, domains, guest_addrs, volumes, uuid_next, ec2_tasks>>
    /\ UNCHANGED dnsVars
    /\ UNCHANGED volVars
    /\ IF ReleaseCheck(alloc_id) = "ok" THEN DbCommit
       ELSE IF ReleaseCheck(alloc_id) = "InvalidParameterValue" THEN DbUntouched
       ELSE DbRollback

-----------------------------------------------------------------------------
(* handlers/ips.py: secondary private addresses *)

\* A NetworkInterfaceId argument "<prefix><instance_id>::<ifname>", by its
\* parts: present is FALSE for a missing argument, prefix is its first four
\* characters, and instance_id is NULL when rpartition("::") finds no
\* separator or nothing before it.
Eni(present, prefix, instance_id, ifname) ==
    [present |-> present, prefix |-> prefix, instance_id |-> instance_id, ifname |-> ifname]

\* the error the argument checks of assign_private_ip_addresses raise, or "ok"
AssignCheck(eni, count) ==
    IF ~eni.present \/ eni.instance_id = NULL \/ count <= 0 \/ eni.prefix # "eni-"
    THEN "InvalidParameterValue"
    ELSE IF eni.instance_id \notin domains THEN "InvalidInstanceID.NotFound"
    ELSE "ok"

\* range(ip_range_start, ip_range_end) of assign_private_ip_addresses
PrivateRange ==
    (static_ip_range[1] + PUBLIC_IP_BLOCK_SIZE) .. (static_ip_range[2] - 1)

\* new_addrs: the first addr_count addresses of the range that are not in
\* taken_addrs, in ascending order (all of them when there are fewer)
NewAddrs(addr_count) ==
    LET taken_addrs == {r.ip_address : r \in private_ip_addresses}
        free == PrivateRange \ taken_addrs
        n == IF Cardinality(free) < addr_count THEN Cardinality(free) ELSE addr_count
    IN  [i \in 1..n |-> CHOOSE a \in free : Cardinality({b \in free : b < a}) = i - 1]

\* AssignPrivateIpAddresses, from the request to its first await: the rows
\* are inserted, and left uncommitted while the guest agent is awaited
AssignPrivateIpAddresses(eni, count) ==
    /\ Ec2Call
    /\ IF AssignCheck(eni, count) # "ok"
       THEN /\ Ec2Reply("AssignPrivateIpAddresses", AssignCheck(eni, count), NULL, NULL,
                        eni.instance_id, NULL)
            /\ DbUntouched
            /\ UNCHANGED ec2_tasks
       ELSE IF Len(NewAddrs(count)) < count
       THEN /\ Ec2Reply("AssignPrivateIpAddresses", "AddressLimitExceeded", NULL, NULL,
                        eni.instance_id, NULL)
            /\ DbRollback
            /\ UNCHANGED ec2_tasks
       ELSE /\ private_ip_addresses' = private_ip_addresses \cup
                   {[ip_address |-> NewAddrs(count)[k], instance_id |-> eni.instance_id,
                     interface |-> eni.ifname] : k \in 1..count}
            /\ UNCHANGED private_committed
            /\ ec2_tasks' = Append(ec2_tasks,
                   [op |-> "AssignPrivateIpAddresses", pc |-> "assign",
                    instance_id |-> eni.instance_id, interface |-> eni.ifname,
                    addrs |-> NewAddrs(count), done |-> 0])
            /\ UNCHANGED ec2_last
    /\ UNCHANGED <<net_dhcp_start, domains, guest_addrs, volumes, ip_addresses, tags,
                   uuid_next>>
    /\ UNCHANGED dnsVars
    /\ UNCHANGED volVars

\* assign_private_ip_addresses resumes after the agent has run "ip addr add"
\* for its next address.  The command fails on an address the guest already
\* has, and the agent may fail by itself; a failure deletes the rows of
\* assigned_addrs and raises, which rolls the connection back.  With the last
\* address added the `with` block is left and commits.
AssignStep(i) ==
    /\ i \in 1..Len(ec2_tasks)
    /\ ec2_tasks[i].pc = "assign"
    /\ LET task == ec2_tasks[i]
           new_addr == task.addrs[task.done + 1]
       IN  \E outcome \in {"added", "failed"} :
              IF outcome = "added" /\ new_addr \notin guest_addrs[task.instance_id]
              THEN /\ guest_addrs' = [guest_addrs EXCEPT ![task.instance_id] =
                                         @ \cup {new_addr}]
                   /\ IF task.done + 1 < Len(task.addrs)
                      THEN /\ ec2_tasks' = [ec2_tasks EXCEPT ![i].done = @ + 1]
                           /\ DbUntouched
                           /\ UNCHANGED ec2_last
                      ELSE /\ ec2_tasks' = Finished(i)
                           /\ DbCommit
                           /\ Ec2Reply(task.op, "ok", NULL, NULL, task.instance_id, NULL)
              ELSE /\ ec2_tasks' = Finished(i)
                   /\ DbRollback
                   /\ Ec2Reply(task.op, "InternalError", NULL, NULL, task.instance_id, NULL)
                   /\ UNCHANGED guest_addrs
    /\ UNCHANGED <<net_dhcp_start, domains, volumes, ip_addresses, tags, uuid_next, ec2_calls>>
    /\ UNCHANGED dnsVars
    /\ UNCHANGED volVars

\* SELECT ip_address FROM private_ip_addresses WHERE instance_id = ? AND
\* interface = ? AND ip_address IN (addrs)
RecordedAddrs(eni, addrs) ==
    {r \in private_ip_addresses :
        /\ r.instance_id = eni.instance_id
        /\ r.interface = eni.ifname
        /\ \E k \in 1..Len(addrs) : addrs[k] = r.ip_address}

\* the error unassign_private_ip_addresses raises before its first await, or "ok"
UnassignCheck(eni, addrs) ==
    IF ~eni.present \/ eni.instance_id = NULL THEN "InvalidParameterValue"
    ELSE IF eni.instance_id \notin domains THEN "InvalidInstanceID.NotFound"
    ELSE IF addrs = <<>> \/ Cardinality(RecordedAddrs(eni, addrs)) # Len(addrs)
    THEN "InvalidParameterValue"
    ELSE "ok"

\* UnassignPrivateIpAddresses, from the request to its first await
UnassignPrivateIpAddresses(eni, addrs) ==
    /\ Ec2Call
    /\ IF UnassignCheck(eni, addrs) # "ok"
       THEN /\ Ec2Reply("UnassignPrivateIpAddresses", UnassignCheck(eni, addrs), NULL, NULL,
                        eni.instance_id, NULL)
            /\ IF eni.present /\ eni.instance_id \in domains /\ addrs # <<>>
               THEN DbRollback ELSE DbUntouched
            /\ UNCHANGED ec2_tasks
       ELSE /\ ec2_tasks' = Append(ec2_tasks,
                   [op |-> "UnassignPrivateIpAddresses", pc |-> "unassign",
                    instance_id |-> eni.instance_id, interface |-> eni.ifname,
                    addrs |-> addrs, done |-> 0])
            /\ DbUntouched
            /\ UNCHANGED ec2_last
    /\ UNCHANGED <<net_dhcp_start, domains, guest_addrs, volumes, ip_addresses, tags,
                   uuid_next>>
    /\ UNCHANGED dnsVars
    /\ UNCHANGED volVars

\* unassign_private_ip_addresses resumes after the agent has run "ip addr del"
\* for its next address.  The command fails on an address the guest does not
\* have; a failure raises, which rolls the connection back; otherwise the row
\* is deleted, and after the last address the `with` block is left and commits.
UnassignStep(i) ==
    /\ i \in 1..Len(ec2_tasks)
    /\ ec2_tasks[i].pc = "unassign"
    /\ LET task == ec2_tasks[i]
           addr == task.addrs[task.done + 1]
       IN  \E outcome \in {"removed", "failed"} :
              IF outcome = "removed" /\ addr \in guest_addrs[task.instance_id]
              THEN /\ guest_addrs' = [guest_addrs EXCEPT ![task.instance_id] = @ \ {addr}]
                   /\ IF task.done + 1 < Len(task.addrs)
                      THEN /\ ec2_tasks' = [ec2_tasks EXCEPT ![i].done = @ + 1]
                           /\ private_ip_addresses' =
                                 {r \in private_ip_addresses : r.ip_address # addr}
                           /\ UNCHANGED private_committed
                           /\ UNCHANGED ec2_last
                      ELSE /\ ec2_tasks' = Finished(i)
                           /\ private_ip_addresses' =
                                 {r \in private_ip_addresses : r.ip_address # addr}
                           /\ private_committed' = private_ip_addresses'
                           /\ Ec2Reply(task.op, "ok", NULL, NULL, task.instance_id, NULL)
              ELSE /\ ec2_tasks' = Finished(i)
                   /\ DbRollback
                   /\ Ec2Reply(task.op, "InternalError", NULL, NULL, task.instance_id, NULL)
                   /\ UNCHANGED guest_addrs
    /\ UNCHANGED <<net_dhcp_start, domains, volumes, ip_addresses, tags, uuid_next, ec2_calls>>
    /\ UNCHANGED dnsVars
    /\ UNCHANGED volVars

-----------------------------------------------------------------------------
(* handlers/volumes.py, handlers/instances.py: the tagged resources *)

\* utils.add_tags: the rows inserted for a resource
AddTags(resource_name, resource_type, tag_pairs) ==
    {<<resource_type, resource_name, t[1], t[2]>> : t \in tag_pairs}

\* utils.remove_tags: the rows left
RemoveTags(resource_name, resource_type) ==
    {t \in tags : ~(t[1] = resource_type /\ t[2] = resource_name)}

\* CreateVolume.  args.Size, args.AvailabilityZone: the argument is present;
\* args.Tags: the (key, value) pairs of the TagSpecification.
CreateVolume(args) ==
    /\ Ec2Call
    /\ IF ~args.Size \/ ~args.AvailabilityZone
       THEN /\ Ec2Reply("CreateVolume", "InvalidParameterValue", NULL, NULL, NULL, NULL)
            /\ UNCHANGED <<volumes, tags, uuid_next>>
       ELSE /\ volumes' = volumes \cup {uuid_next + 1}
            /\ tags' = tags \cup AddTags(uuid_next + 1, "volume", args.Tags)
            /\ uuid_next' = uuid_next + 1
            /\ Ec2Reply("CreateVolume", "ok", uuid_next + 1, NULL, NULL, NULL)
    /\ UNCHANGED <<net_dhcp_start, domains, guest_addrs, ip_addresses, ec2_tasks>>
    /\ UNCHANGED dnsVars
    /\ UNCHANGED volVars
    /\ IF ~args.Size \/ ~args.AvailabilityZone THEN DbUntouched ELSE DbCommit

\* DeleteVolume
DeleteVolume(volname) ==
    /\ Ec2Call
    /\ IF volname = NULL
       THEN /\ Ec2Reply("DeleteVolume", "InvalidParameterValue", volname, NULL, NULL, NULL)
            /\ UNCHANGED volumes
       ELSE IF volname \notin volumes
       THEN /\ Ec2Reply("DeleteVolume", "InvalidVolume.NotFound", volname, NULL, NULL, NULL)
            /\ UNCHANGED volumes
       ELSE /\ volumes' = volumes \ {volname}
            /\ Ec2Reply("DeleteVolume", "ok", volname, NULL, NULL, NULL)
    /\ UNCHANGED <<net_dhcp_start, domains, guest_addrs, ip_addresses, tags, uuid_next,
                   ec2_tasks>>
    /\ UNCHANGED dnsVars
    /\ UNCHANGED volVars
    /\ DbUntouched

-----------------------------------------------------------------------------
(* handlers/volumes.py: volume attachments *)

\* objects.get_vol_attachments: the disks of all domains that name the volume
GetVolAttachments(volume) == {a \in vol_attachments : a.volume = volume}

\* _known_attachments.get((volume, domain)), as the set of its entries
Known(volume, domain) ==
    {k \in known_attachments : k.volume = volume /\ k.domain = domain}

\* a fault: an attachment the tracker has no entry for counts as detached
GetAttachmentStatus_DetachedByDefault(att) ==
    IF Known(att.volume, att.domain) = {} THEN "detached"
    ELSE (CHOOSE k \in Known(att.volume, att.domain) : TRUE).status

\* get_attachment_status
GetAttachmentStatus(att) ==
    IF Known(att.volume, att.domain) = {} THEN "attached"
    ELSE (CHOOSE k \in Known(att.volume, att.domain) : TRUE).status

\* att_set of _get_volume_status and of _describe_volume: the attachments
\* libvirt reports, then the entries of the tracker for this volume that
\* libvirt does not report
AttSet(volume) ==
    {[instanceId |-> a.domain, device |-> a.device, status |-> GetAttachmentStatus(a)] :
        a \in GetVolAttachments(volume)}
    \cup {[instanceId |-> k.domain, device |-> k.device, status |-> k.status] :
             k \in {e \in known_attachments :
                      /\ e.volume = volume
                      /\ \A a \in GetVolAttachments(volume) : a.domain # e.domain}}

\* a fault: a volume counts as in use only while an attachment is attached
GetVolumeStatus_AttachedOnly(volume) ==
    IF \A att \in AttSet(volume) : att.status # "attached" THEN "available" ELSE "in-use"

\* _get_volume_status; the "status" of _describe_volume
GetVolumeStatus(volume) ==
    IF \A att \in AttSet(volume) : att.status = "detached" THEN "available" ELSE "in-use"

\* _describe_volume: the entry of DescribeVolumes for a volume of the pool
DescribeVolume(volume) ==
    [volumeId |-> volume, status |-> GetVolumeStatus(volume), attachmentSet |-> AttSet(volume)]

\* a fault: the status of the volume is not looked at
AttachCheck_StatusIgnored(instance_id, volume_id, device) ==
    IF instance_id = NULL \/ volume_id = NULL \/ device = "" THEN "InvalidParameterValue"
    ELSE IF instance_id \notin domains \/ volume_id \notin volumes
    THEN "InvalidParameterValue"
    ELSE "ok"

\* the error attach_volume raises before it calls attachDevice, or "ok"
\* (a missing Device argument is "")
AttachCheck(instance_id, volume_id, device) ==
    IF instance_id = NULL \/ volume_id = NULL \/ device = "" THEN "InvalidParameterValue"
    ELSE IF instance_id \notin domains \/ volume_id \notin volumes
    THEN "InvalidParameterValue"
    ELSE IF GetVolumeStatus(volume_id) # "available" THEN "IncorrectState"
    ELSE "ok"

\* _known_attachments[volume, domain] = (device, status)
KnownSet(known, volume, domain, device, status) ==
    {k \in known : ~(k.volume = volume /\ k.domain = domain)}
        \cup {[volume |-> volume, domain |-> domain, device |-> device, status |-> status]}

\* a callback of loop.call_later(3, ..)
Timer(status, volume, domain, device) ==
    [status |-> status, volume |-> volume, domain |-> domain, device |-> device]

\* AttachVolume.  attachDevice raises when the domain has a disk with the
\* same target, and libvirt may refuse for reasons of its own.
AttachVolume(instance_id, volume_id, device) ==
    /\ Ec2Call
    /\ IF AttachCheck(instance_id, volume_id, device) # "ok"
       THEN /\ Ec2Reply("AttachVolume", AttachCheck(instance_id, volume_id, device),
                        volume_id, NULL, instance_id, NULL)
            /\ UNCHANGED <<vol_attachments, known_attachments, timers>>
       ELSE \E outcome \in {"attached", "refused"} :
               IF outcome = "attached"
                  /\ \A a \in vol_attachments : ~(a.domain = instance_id /\ a.device = device)
               THEN /\ vol_attachments' = vol_attachments \cup
                           {[volume |-> volume_id, domain |-> instance_id, device |-> device]}
                    /\ known_attachments' =
                           KnownSet({k \in known_attachments :
                                        ~(k.volume = volume_id /\ k.status = "detached")},
                                    volume_id, instance_id, device, "attaching")
                    /\ timers' = Append(timers,
                                        Timer("attached", volume_id, instance_id, device))
                    /\ Ec2Reply("AttachVolume", "ok", volume_id, NULL, instance_id, NULL)
               ELSE /\ Ec2Reply("AttachVolume", "InternalError", volume_id, NULL,
                                instance_id, NULL)
                    /\ UNCHANGED <<vol_attachments, known_attachments, timers>>
    /\ UNCHANGED <<net_dhcp_start, domains, guest_addrs, volumes, ip_addresses, tags,
                   uuid_next, ec2_tasks, instVars>>
    /\ UNCHANGED dnsVars
    /\ DbUntouched

\* a fault: an entry of the tracker is returned whatever its status
DetachCheck_AnyEntry(instance_id, volume_id) ==
    IF instance_id = NULL \/ volume_id = NULL THEN "InvalidParameterValue"
    ELSE IF instance_id \notin domains THEN "InvalidInstanceID.NotFound"
    ELSE IF volume_id \notin volumes THEN "InvalidVolume.NotFound"
    ELSE IF \E a \in GetVolAttachments(volume_id) : a.domain = instance_id THEN "ok"
    ELSE IF Known(volume_id, instance_id) # {} THEN "known"
    ELSE "InvalidAttachment.NotFound"

\* the error detach_volume raises before it calls detachDevice; "known" when
\* libvirt reports no attachment and the tracker says detaching; or "ok"
DetachCheck(instance_id, volume_id) ==
    IF instance_id = NULL \/ volume_id = NULL THEN "InvalidParameterValue"
    ELSE IF instance_id \notin domains THEN "InvalidInstanceID.NotFound"
    ELSE IF volume_id \notin volumes THEN "InvalidVolume.NotFound"
    ELSE IF \E a \in GetVolAttachments(volume_id) : a.domain = instance_id THEN "ok"
    ELSE IF \E k \in Known(volume_id, instance_id) : k.status = "detaching" THEN "known"
    ELSE "InvalidAttachment.NotFound"

\* the answer of detach_volume: "status" and "device", "" in an error
DetachReply(code, volume_id, instance_id, status, device) ==
    ec2_last' = [op |-> "DetachVolume", code |-> code, allocation_id |-> volume_id,
                 association_id |-> NULL, instance_id |-> instance_id,
                 ip_address |-> NULL, status |-> status, device |-> device]

\* DetachVolume
DetachVolume(instance_id, volume_id) ==
    /\ Ec2Call
    /\ IF DetachCheck(instance_id, volume_id) = "known"
       THEN LET known == CHOOSE k \in Known(volume_id, instance_id) : TRUE
            IN  /\ DetachReply("ok", volume_id, instance_id, known.status, known.device)
                /\ UNCHANGED <<vol_attachments, known_attachments, timers>>
       ELSE IF DetachCheck(instance_id, volume_id) # "ok"
       THEN /\ DetachReply(DetachCheck(instance_id, volume_id), volume_id, instance_id,
                           "", "")
            /\ UNCHANGED <<vol_attachments, known_attachments, timers>>
       ELSE LET attachment == CHOOSE a \in GetVolAttachments(volume_id) :
                                  a.domain = instance_id
            IN  \E outcome \in {"detached", "refused"} :
                   IF outcome = "detached"
                   THEN /\ vol_attachments' = vol_attachments \ {attachment}
                        /\ known_attachments' =
                               KnownSet(known_attachments, volume_id, instance_id,
                                        attachment.device, "detaching")
                        /\ timers' = Append(timers, Timer("detached", volume_id, instance_id,
                                                          attachment.device))
                        /\ DetachReply("ok", volume_id, instance_id, "detaching",
                                       attachment.device)
                   ELSE /\ DetachReply("InternalError", volume_id, instance_id, "", "")
                        /\ UNCHANGED <<vol_attachments, known_attachments, timers>>
    /\ UNCHANGED <<net_dhcp_start, domains, guest_addrs, volumes, ip_addresses, tags,
                   uuid_next, ec2_tasks, instVars>>
    /\ UNCHANGED dnsVars
    /\ DbUntouched

\* a fault: the callbacks leave the tracker as it is
MarkedBy_Nothing(timer) == known_attachments

\* _mark_attached, _mark_detached: the entry is set, whatever it was
MarkedBy(timer) ==
    KnownSet(known_attachments, timer.volume, timer.domain, timer.device, timer.status)

\* Three seconds after the call that scheduled it, the event loop runs the
\* oldest callback.  All delays being equal, callbacks run in the order of
\* their scheduling.
TimerFires ==
    /\ timers # <<>>
    /\ known_attachments' = MarkedBy(Head(timers))
    /\ timers' = Tail(timers)
    /\ UNCHANGED <<net_dhcp_start, domains, guest_addrs, volumes, ip_addresses, tags,
                   uuid_next, ec2_tasks, ec2_calls, ec2_last, vol_attachments,
                   instVars>>
    /\ UNCHANGED dnsVars
    /\ DbUntouched

-----------------------------------------------------------------------------
(* handlers/instances.py, main.py: the instance rows *)

\* init_db: the columns of table ec2_instance
InstanceColumns == {"name", "state", "terminated_at"}

\* init_db: check(state IN ('running', 'terminated'))
InstanceStateCheck == {"running", "terminated"}

\* the table CREATE TABLE IF NOT EXISTS ec2_instance creates in a database
\* that has none
StartupTable == [columns |-> InstanceColumns, check |-> InstanceStateCheck]

\* the columns the statements of handlers/instances.py name
HandlerColumns == {"id", "state", "availability_zone", "subnet_id", "terminated_at"}

\* sqlite3 prepares a statement on ec2_instance only if the table has every
\* column it names; otherwise it raises OperationalError
InstanceSql(columns) == columns \subseteq instance_table.columns

\* the check of the table accepts the state; otherwise sqlite3 raises
\* IntegrityError
InstanceCheck(state) == state \in instance_table.check

\* domain_state_lookup, by virDomainState
domain_state_lookup ==
    [virstate \in 0..7 |->
        CASE virstate = 0 -> "??? no-state"
          [] virstate = 1 -> "running"
          [] virstate = 2 -> "??? blocked"
          [] virstate = 3 -> "stopped"
          [] virstate = 4 -> "stopping"
          [] virstate = 5 -> "stopped"
          [] virstate = 6 -> "??? crashed"
          [] virstate = 7 -> "stopped"]

\* domstate(virdom)
domstate(virdom) == domain_state_lookup[virstates[virdom]]

\* timedelta(minutes=2), in ticks of the clock (one tick is one minute)
GcAge == 2

\* a fault: the DELETE does not compare terminated_at with the clock
GarbageCollect_AnyAge(rows) == {row \in rows : row.terminated_at = NULL}

\* garbage_collect_terminated_instances: the rows the DELETE leaves
GarbageCollect(rows) ==
    {row \in rows : ~(row.terminated_at # NULL /\ row.terminated_at < clock - GcAge)}

\* SELECT .. FROM ec2_instance WHERE id = ?
InstanceRows(instance_id) == {row \in ec2_instance : row.id = instance_id}

\* UPDATE ec2_instance SET state = ? WHERE id = ?
InstanceUpdate(instance_id, state) ==
    {IF row.id = instance_id THEN [row EXCEPT !.state = state] ELSE row :
        row \in ec2_instance}

\* UPDATE ec2_instance SET state = 'stopping'
\* WHERE id = ? AND terminated_at IS NULL
StopUpdate(instance_id) ==
    {IF row.id = instance_id /\ row.terminated_at = NULL
     THEN [row EXCEPT !.state = "stopping"] ELSE row : row \in ec2_instance}

\* UPDATE ec2_instance SET state = 'terminated', terminated_at = ?
\* WHERE id = ? AND terminated_at IS NULL
TerminateUpdate(rows, instance_id) ==
    {IF row.id = instance_id /\ row.terminated_at = NULL
     THEN [row EXCEPT !.state = "terminated", !.terminated_at = clock]
     ELSE row : row \in rows}

\* the answer to a request about one instance
InstanceReply(op, code, instance_id, state, availability_zone, subnet_id) ==
    ec2_last' = [op |-> op, code |-> code, allocation_id |-> NULL,
                 association_id |-> NULL, instance_id |-> instance_id,
                 ip_address |-> NULL, instanceState |-> state,
                 availabilityZone |-> availability_zone, subnetId |-> subnet_id]

\* a function on the domains, without the domains of `gone`
Without(f, gone) == [d \in (DOMAIN f) \ gone |-> f[d]]

\* a function on the domains, with one more domain
With(f, d, v) == [e \in (DOMAIN f) \cup {d} |-> IF e = d THEN v ELSE f[e]]

\* RunInstances.  args.ImageId: the argument is present; args.Tags: the
\* (key, value) pairs of the TagSpecification; args.AvailabilityZone,
\* args.SubnetId: the argument, "" when absent.  virt-clone and virt-sysprep
\* succeed or exit non-zero; after a failed virt-sysprep the clone stays
\* defined, shut off, with the disks virt-clone has copied.
RunInstances(args) ==
    /\ Ec2Call
    /\ LET kept == GarbageCollect(ec2_instance)
           id == uuid_next + 1
           row == [id |-> id, state |-> "running",
                   availability_zone |-> IF args.AvailabilityZone = ""
                                         THEN "default-1a" ELSE args.AvailabilityZone,
                   subnet_id |-> IF args.SubnetId = ""
                                 THEN "subnet-default" ELSE args.SubnetId,
                   terminated_at |-> NULL]
       IN  /\ IF ~args.ImageId
              THEN /\ Ec2Reply("RunInstances", "InvalidParameterValue", NULL, NULL, NULL, NULL)
                   /\ UNCHANGED <<uuid_next, tags, domains, guest_addrs, virstates,
                                  instance_disks>>
              ELSE /\ uuid_next' = id
                   /\ IF ~InstanceSql({"id", "state", "availability_zone", "subnet_id"})
                      THEN /\ Ec2Reply("RunInstances", "InternalError", NULL, NULL, id, NULL)
                           /\ UNCHANGED <<tags, domains, guest_addrs, virstates,
                                          instance_disks>>
                      ELSE \E outcome \in {"created", "clone failed", "sysprep failed"} :
                              /\ Ec2Reply("RunInstances",
                                          IF outcome = "created" THEN "ok" ELSE "InternalError",
                                          NULL, NULL, id, NULL)
                              /\ tags' = IF outcome = "created"
                                         THEN tags \cup AddTags(id, "instance", args.Tags)
                                         ELSE tags
                              /\ IF outcome = "clone failed"
                                 THEN UNCHANGED <<domains, guest_addrs, virstates,
                                                  instance_disks>>
                                 ELSE /\ domains' = domains \cup {id}
                                      /\ instance_disks' = instance_disks \cup {id}
                                      /\ guest_addrs' = With(guest_addrs, id, {})
                                      /\ virstates' = With(virstates, id,
                                                           IF outcome = "created" THEN 1 ELSE 5)
           /\ instance_committed' = IF ec2_last'.code = "ok" THEN kept \cup {row} ELSE kept
           /\ ec2_instance' = instance_committed'
    /\ UNCHANGED <<net_dhcp_start, volumes, ip_addresses, ec2_tasks, vol_attachments,
                   known_attachments, timers, instance_table, clock>>
    /\ UNCHANGED dnsReqVars
    /\ DbCommit

\* the orders in which a for loop may visit set(args.get("InstanceId", ()))
IterationOrders(S) ==
    {order \in [1..Cardinality(S) -> S] :
        \A i, j \in 1..Cardinality(S) : i # j => order[i] # order[j]}

\* a fault: the UPDATE applies to a terminated row too, and is committed
\* before the domain is looked up
TerminateOne_Restamps(st, instance_id, destroyed) ==
    LET rows == {IF row.id = instance_id
                 THEN [row EXCEPT !.state = "terminated", !.terminated_at = clock]
                 ELSE row : row \in st.rows}
    IN  IF st.raised THEN st
        ELSE IF ~InstanceSql({"id", "state", "terminated_at"})
        THEN [st EXCEPT !.raised = TRUE, !.rows = st.committed]
        ELSE IF instance_id \notin st.domains
        THEN [st EXCEPT !.raised = TRUE, !.rows = rows, !.committed = rows]
        ELSE IF ~destroyed
        THEN [st EXCEPT !.raised = TRUE, !.rows = rows, !.committed = rows,
                        !.disks = st.disks \ {instance_id}]
        ELSE [st EXCEPT !.rows = rows, !.committed = rows,
                        !.tags = {t \in st.tags :
                                     ~(t[1] = "instance" /\ t[2] = instance_id)},
                        !.domains = st.domains \ {instance_id},
                        !.disks = st.disks \ {instance_id}]

\* One pass of the loop of terminate_instances.  st: the rows as the
\* connection reads them and as of the last COMMIT, the tags, the domains,
\* the instances with disks, and whether an earlier pass has raised.
\* destroyed: virdom.destroy() and virdom.undefine() succeed.  The finally
\* clause deletes the disks whether they do or not.
TerminateOne(st, instance_id, destroyed) ==
    IF st.raised THEN st
    ELSE IF ~InstanceSql({"id", "state", "terminated_at"})
            \/ instance_id \notin st.domains
    THEN [st EXCEPT !.raised = TRUE, !.rows = st.committed]
    ELSE IF ~destroyed
    THEN [st EXCEPT !.raised = TRUE, !.rows = st.committed,
                    !.disks = st.disks \ {instance_id}]
    ELSE LET rows == TerminateUpdate(st.rows, instance_id)
         IN  [st EXCEPT !.rows = rows, !.committed = rows,
                        !.tags = {t \in st.tags :
                                     ~(t[1] = "instance" /\ t[2] = instance_id)},
                        !.domains = st.domains \ {instance_id},
                        !.disks = st.disks \ {instance_id}]

\* the passes of the loop of terminate_instances over order[k..]
RECURSIVE TerminateLoop(_, _, _, _)
TerminateLoop(st, order, k, destroyed) ==
    IF k > Len(order) THEN st
    ELSE TerminateLoop(TerminateOne(st, order[k], order[k] \in destroyed),
                       order, k + 1, destroyed)

\* TerminateInstances.  The instances are visited in the order of a set.
TerminateInstances(instance_ids) ==
    /\ Ec2Call
    /\ \E order \in IterationOrders(instance_ids), destroyed \in SUBSET instance_ids :
          LET st == TerminateLoop([rows |-> ec2_instance, committed |-> instance_committed,
                                   tags |-> tags, domains |-> domains,
                                   disks |-> instance_disks, raised |-> FALSE],
                                  order, 1, destroyed)
              gone == domains \ st.domains
          IN  /\ Ec2Reply("TerminateInstances", IF st.raised THEN "InternalError" ELSE "ok",
                          NULL, NULL, NULL, NULL)
              /\ ec2_instance' = st.rows
              /\ instance_committed' = st.committed
              /\ tags' = st.tags
              /\ domains' = st.domains
              /\ instance_disks' = st.disks
              /\ guest_addrs' = Without(guest_addrs, gone)
              /\ virstates' = Without(virstates, gone)
              /\ IF gone # {} THEN DbCommit
                 ELSE IF st.raised THEN DbRollback ELSE DbUntouched
    /\ UNCHANGED <<net_dhcp_start, volumes, ip_addresses, uuid_next, ec2_tasks,
                   vol_attachments, known_attachments, timers, instance_table, clock>>
    /\ UNCHANGED dnsReqVars

\* a stop_instances coroutine suspended at asyncio.sleep(5)
StopTask(instance_id) ==
    [op |-> "StopInstances", pc |-> "sleep", instance_id |-> instance_id]

\* StopInstances for one InstanceId, or none (NULL), from the request to its
\* first await, or to its end when the domain already reports stopped
StopInstances(instance_id) ==
    /\ Ec2Call
    /\ IF instance_id = NULL
       THEN /\ Ec2Reply("StopInstances", "ok", NULL, NULL, NULL, NULL)
            /\ DbUntouched
            /\ UNCHANGED <<ec2_instance, instance_committed, ec2_tasks>>
       ELSE IF ~InstanceSql({"id", "state", "terminated_at"})
               \/ ((\E row \in InstanceRows(instance_id) : row.terminated_at = NULL)
                   /\ ~InstanceCheck("stopping"))
               \/ instance_id \notin domains
       THEN /\ Ec2Reply("StopInstances", "InternalError", NULL, NULL, instance_id, NULL)
            /\ DbRollback
            /\ ec2_instance' = instance_committed
            /\ UNCHANGED <<instance_committed, ec2_tasks>>
       ELSE IF domstate(instance_id) = "stopped"
       THEN /\ Ec2Reply("StopInstances", "ok", NULL, NULL, instance_id, NULL)
            /\ DbCommit
            /\ ec2_instance' = StopUpdate(instance_id)
            /\ instance_committed' = StopUpdate(instance_id)
            /\ UNCHANGED ec2_tasks
       ELSE /\ ec2_instance' = StopUpdate(instance_id)
            /\ ec2_tasks' = Append(ec2_tasks, StopTask(instance_id))
            /\ DbUntouched
            /\ UNCHANGED <<ec2_last, instance_committed>>
    /\ UNCHANGED <<net_dhcp_start, domains, guest_addrs, volumes, ip_addresses, tags,
                   uuid_next, vol_attachments, known_attachments, timers,
                   instance_table, virstates, clock>>
    /\ UNCHANGED dnsVars

\* stop_instances wakes from asyncio.sleep(5) and reads the state of the
\* domain: it returns when the state maps to 'stopped', raises when the domain
\* is gone, and otherwise calls shutdown() and sleeps again
StopWakes(i) ==
    /\ i \in 1..Len(ec2_tasks)
    /\ ec2_tasks[i].op = "StopInstances"
    /\ LET instance_id == ec2_tasks[i].instance_id
       IN  IF instance_id \notin domains
           THEN /\ Ec2Reply("StopInstances", "InternalError", NULL, NULL, instance_id, NULL)
                /\ ec2_tasks' = Finished(i)
                /\ DbRollback
                /\ ec2_instance' = instance_committed
                /\ UNCHANGED instance_committed
           ELSE /\ domstate(instance_id) = "stopped"
                /\ Ec2Reply("StopInstances", "ok", NULL, NULL, instance_id, NULL)
                /\ ec2_tasks' = Finished(i)
                /\ DbCommit
                /\ instance_committed' = ec2_instance
                /\ UNCHANGED ec2_instance
    /\ UNCHANGED <<net_dhcp_start, domains, guest_addrs, volumes, ip_addresses, tags,
                   uuid_next, ec2_calls, vol_attachments, known_attachments, timers,
                   instance_table, virstates, clock>>
    /\ UNCHANGED dnsVars

\* DescribeInstances for one InstanceId, or none (NULL)
DescribeInstances(instance_id) ==
    /\ Ec2Call
    /\ IF instance_id = NULL
       THEN /\ Ec2Reply("DescribeInstances", "ok", NULL, NULL, NULL, NULL)
            /\ DbUntouched
            /\ UNCHANGED <<ec2_instance, instance_committed>>
       ELSE IF ~InstanceSql({"id", "state", "availability_zone", "subnet_id"})
       THEN /\ Ec2Reply("DescribeInstances", "InternalError", NULL, NULL, instance_id, NULL)
            /\ DbRollback
            /\ ec2_instance' = instance_committed
            /\ UNCHANGED instance_committed
       ELSE IF InstanceRows(instance_id) = {}
       THEN /\ Ec2Reply("DescribeInstances", "InvalidInstanceID.NotFound", NULL, NULL,
                        instance_id, NULL)
            /\ DbRollback
            /\ ec2_instance' = instance_committed
            /\ UNCHANGED instance_committed
       ELSE LET row == CHOOSE r \in InstanceRows(instance_id) : TRUE
            IN  IF row.state = "terminated"
                THEN /\ InstanceReply("DescribeInstances", "ok", instance_id, row.state,
                                      row.availability_zone, row.subnet_id)
                     /\ DbCommit
                     /\ instance_committed' = ec2_instance
                     /\ UNCHANGED ec2_instance
                ELSE IF instance_id \notin domains
                THEN /\ Ec2Reply("DescribeInstances", "InvalidInstanceID.NotFound", NULL,
                                 NULL, instance_id, NULL)
                     /\ DbCommit
                     /\ instance_committed' = ec2_instance
                     /\ UNCHANGED ec2_instance
                ELSE LET state == domstate(instance_id)
                     IN  IF state # row.state /\ ~InstanceCheck(state)
                         THEN /\ Ec2Reply("DescribeInstances", "InternalError", NULL, NULL,
                                          instance_id, NULL)
                              /\ DbCommit
                              /\ instance_committed' = ec2_instance
                              /\ UNCHANGED ec2_instance
                         ELSE /\ InstanceReply("DescribeInstances", "ok", instance_id,
                                               row.state,
                                               row.availability_zone, row.subnet_id)
                              /\ DbCommit
                              /\ ec2_instance' = InstanceUpdate(instance_id, state)
                              /\ instance_committed' = InstanceUpdate(instance_id, state)
    /\ UNCHANGED <<net_dhcp_start, domains, guest_addrs, volumes, ip_addresses, tags,
                   uuid_next, ec2_tasks, vol_attachments, known_attachments, timers,
                   instance_table, virstates, clock>>
    /\ UNCHANGED dnsVars

\* libvirt: a domain changes state (the guest shuts down, is paused or
\* resumed, is started again), whether or not shutdown() was called
DomainChanges(virdom, virstate) ==
    /\ virdom \in domains
    /\ virstates[virdom] # virstate
    /\ virstates' = [virstates EXCEPT ![virdom] = virstate]
    /\ UNCHANGED <<net_dhcp_start, domains, guest_addrs, volumes, ip_addresses, tags,
                   uuid_next, ec2_tasks, ec2_calls, ec2_last, vol_attachments,
                   known_attachments, timers, ec2_instance, instance_committed,
                   instance_table, clock>>
    /\ UNCHANGED dnsVars
    /\ DbUntouched

\* the last minute of the clock
MaxClock == 4

\* datetime.datetime.now() advances by one minute
Tick ==
    /\ clock < MaxClock
    /\ clock' = clock + 1
    /\ UNCHANGED <<net_dhcp_start, domains, guest_addrs, volumes, ip_addresses, tags,
                   uuid_next, ec2_tasks, ec2_calls, ec2_last, vol_attachments,
                   known_attachments, timers, ec2_instance, instance_committed,
                   instance_table, virstates>>
    /\ UNCHANGED dnsVars
    /\ DbUntouched

\* the ec2_instance table is the one init_db has just created and every
\* domain is running, on the disks it was cloned with
InstancesAtRest ==
    /\ ec2_instance = {}
    /\ instance_committed = {}
    /\ instance_table = StartupTable
    /\ virstates = [d \in domains |-> 1]
    /\ clock = 1
    /\ instance_disks = domains

\* no private address is assigned, no volume is attached, no instance row
\* exists and the connection holds nothing uncommitted
RestAtRest ==
    /\ private_ip_addresses = {}
    /\ private_committed = {}
    /\ vol_attachments = {}
    /\ known_attachments = {}
    /\ timers = <<>>
    /\ InstancesAtRest

\* no EC2 request has been received: no domain, no volume, no address
Ec2AtRest ==
    /\ net_dhcp_start = ip_network_address + 2 + PUBLIC_IP_BLOCK_SIZE
    /\ domains = {}
    /\ RestAtRest
    /\ guest_addrs = [d \in {} |-> {}]
    /\ volumes = {}
    /\ ip_addresses = {}
    /\ ec2_tasks = <<>>
    /\ ec2_calls = 0
    /\ ec2_last = [op |-> "none", code |-> "ok", allocation_id |-> NULL,
                   association_id |-> NULL, instance_id |-> NULL, ip_address |-> NULL]

-----------------------------------------------------------------------------
(* The Route 53 surface *)

\* a zone id a request may name: the primary zone, a sub-zone, or an id that
\* names no zone
ZoneIdArgs == {net_name} \cup ZoneIds \cup {uuid_next + 1}

\* No Route 53 request has been served in this run; earlier runs have left the
\* first n of the sub-zones s.e. and t.s.e., created in that order.  The
\* guests name their interface on the network ifname.
DnsAtRestWith(n, ifname) ==
    /\ guest_ifname = ifname
    /\ http = [pc |-> "idle"]
    /\ decoder = [pc |-> "idle"]
    /\ agent = [pc |-> "idle"]
    /\ net_hosts = <<>>
    /\ net_txts = <<>>
    /\ net_srvs = <<>>
    /\ dns_zones = {[id |-> 2 * i - 1, name |-> <<Str_sE, Str_tS>>[i]] : i \in 1..n}
    /\ dns_changes = n
    /\ dns_calls = 0
    /\ dns_last = [op |-> "none", zone |-> net_name, batch |-> <<>>, code |-> "ok",
                   issued |-> <<>>, listed |-> {}]

\* the same, with guests whose interface on the network is vif0
DnsAtRest(n) == DnsAtRestWith(n, "vif0")

\* The service starts over a libvirt network and a database that earlier
\* runs have left: no sub-zone, or s.e. and t.s.e.
InitDNS ==
    /\ \E n \in {0, 1, 2} :
          /\ DnsAtRest(n)
          /\ uuid_next = 2 * n
    /\ tags = {}
    /\ Ec2AtRest

NextDNS ==
    \/ \E changes \in Batches : ChangeResourceRecordSets(net_name, changes)
    \/ \E zone_id \in ZoneIdArgs, changes \in SubzoneBatches :
          ChangeResourceRecordSets(zone_id, changes)
    \/ \E name \in ZoneNames : CreateHostedZone(name)
    \/ \E zone_id \in ZoneIdArgs : DeleteHostedZone(zone_id)
    \/ \E res_id \in ZoneIdArgs, t \in TagPairs :
          ChangeTagsForResource(res_id, {t}, {})
    \/ \E res_id \in ZoneIdArgs : ChangeTagsForResource(res_id, {}, {"k"})
    \/ \E zone_id \in ZoneIdArgs : ListResourceRecordSets(zone_id)

SpecDNS == InitDNS /\ [][NextDNS]_vars

-----------------------------------------------------------------------------
(* Properties of the Route 53 surface *)

Key(change) == <<change.Type, change.Name>>

\* the record set of the network, as net.dns_records reads it back
ReadBack == DnsRecords(net_txts, net_srvs, net_hosts)

ReadBackNext == DnsRecords(net_txts', net_srvs', net_hosts')

\* a ChangeResourceRecordSets request on an existing zone is served in this step
ChangeStep ==
    /\ dns_calls' = dns_calls + 1
    /\ dns_last'.op = "ChangeResourceRecordSets"
    /\ dns_last'.zone \in {net_name} \cup ZoneIds

\* the change that decides its key: the last one of the batch that names it
Decides(changes, i) ==
    \A j \in (i + 1)..Len(changes) : Key(changes[j]) # Key(changes[i])

\* C3: after ChangeResourceRecordSets returns successfully, the record set read
\* back holds every CREATEd key, no DELETEd key, and exactly the supplied
\* values at every UPSERTed key, whatever the record type.
C3_ReadBackMatchesBatch ==
    (dns_last.op = "ChangeResourceRecordSets" /\ dns_last.code = "ok") =>
        \A i \in 1..Len(dns_last.batch) :
            Decides(dns_last.batch, i) =>
                LET c == dns_last.batch[i]
                IN  /\ c.Action = "CREATE" => DHas(ReadBack, Key(c))
                    /\ c.Action = "UPSERT" =>
                          DHas(ReadBack, Key(c)) /\ DGet(ReadBack, Key(c), {}) = c.Values
                    /\ c.Action = "DELETE" => ~DHas(ReadBack, Key(c))

\* The record set a run of accepted changes leaves, as a mapping
RECURSIVE TableAfter(_, _)
TableAfter(m, changes) ==
    IF Len(changes) = 0 THEN m
    ELSE LET c == Head(changes)
         IN  TableAfter(IF c.Action = "DELETE"
                        THEN [k \in DOMAIN m \ {Key(c)} |-> m[k]]
                        ELSE [k \in DOMAIN m \cup {Key(c)} |->
                                 IF k = Key(c) THEN c.Values ELSE m[k]],
                        Tail(changes))

\* the answer the rules of a change batch give to one change on the table m
Verdict(m, c) ==
    IF c.Action = "CREATE"
    THEN IF Key(c) \in DOMAIN m THEN "InvalidChangeBatch" ELSE "ok"
    ELSE IF c.Action = "DELETE"
    THEN IF Key(c) \in DOMAIN m /\ m[Key(c)] = c.Values THEN "ok" ELSE "InvalidChangeBatch"
    ELSE IF c.Action = "UPSERT" THEN "ok"
    ELSE "InvalidInput"

VerdictAt(m, changes, k) == Verdict(TableAfter(m, SubSeq(changes, 1, k - 1)), changes[k])

\* C4: a batch whose k-th change is the first to be a CREATE of a key present
\* in the working table, a DELETE whose values differ from the stored ones,
\* or an unknown action is answered InvalidChangeBatch, InvalidChangeBatch or
\* InvalidInput; no libvirt update is issued and no dns_changes row is added.
C4_RejectedBeforeUpdate ==
    [][ChangeStep =>
          \A k \in 1..Len(dns_last'.batch) :
              (/\ VerdictAt(AsMap(ReadBack), dns_last'.batch, k) # "ok"
               /\ \A j \in 1..(k - 1) : VerdictAt(AsMap(ReadBack), dns_last'.batch, j) = "ok")
              => /\ dns_last'.code = VerdictAt(AsMap(ReadBack), dns_last'.batch, k)
                 /\ dns_last'.issued = <<>>
                 /\ dns_changes' = dns_changes
                 /\ <<net_txts', net_srvs', net_hosts'>> = <<net_txts, net_srvs, net_hosts>>
      ]_vars

\* a CREATE of a stored key has been answered InvalidChangeBatch
C4_Witness ==
    /\ dns_last.op = "ChangeResourceRecordSets"
    /\ dns_last.batch = <<Create(A_wE)>>
    /\ dns_last.code = "InvalidChangeBatch"
    /\ DHas(ReadBack, Key(Create(A_wE)))
    /\ dns_calls = 2

\* C5: when a libvirt update of a batch fails, the record set of the network
\* is the one it was before the request.
C5_AtomicOnFailure ==
    [][(ChangeStep /\ dns_last'.code = "InternalError")
          => AsMap(ReadBackNext) = AsMap(ReadBack)]_vars

\* C6: within one request every DELETE update is issued before any ADD update.
C6_DeletesBeforeAdds ==
    \A i \in 1..Len(dns_last.issued), j \in 1..Len(dns_last.issued) :
        i < j => ~(dns_last.issued[i] = "ADD_LAST" /\ dns_last.issued[j] = "DELETE")

\* a request has replaced stored records: it issued deletes and adds
C6_Witness ==
    /\ dns_last.code = "ok"
    /\ Len(dns_last.batch) = 2
    /\ Cardinality({i \in 1..Len(dns_last.issued) : dns_last.issued[i] = "DELETE"}) >= 2
    /\ Cardinality({i \in 1..Len(dns_last.issued) : dns_last.issued[i] = "ADD_LAST"}) >= 2

\* the changes of a batch in every order
Orderings(changes) ==
    {[i \in 1..Len(changes) |-> changes[f[i]]] :
        f \in {g \in [1..Len(changes) -> 1..Len(changes)] :
                  \A i, j \in 1..Len(changes) : i # j => g[i] # g[j]}}

UpsertsOnDistinctKeys(changes) ==
    /\ \A i \in 1..Len(changes) : changes[i].Action = "UPSERT"
    /\ \A i, j \in 1..Len(changes) : i # j => Key(changes[i]) # Key(changes[j])

RecordsOf(net) == AsMap(DnsRecords(net.txts, net.srvs, net.hosts))

\* the answer and the record set a batch ends with when libvirt accepts
\* every update of its plan
Outcome(net, plan) ==
    [code |-> plan.code,
     records |-> RecordsOf(NetUpdates(net, plan.updates, Len(plan.updates)))]

FinalRecords(net, changes) ==
    Outcome(net, ChangePlan(net.txts, net.srvs, net.hosts, changes))

ZoneNameOf(zone_id) == IF zone_id = net_name THEN dns_domain ELSE SubzoneName(zone_id)

\* the other persisted sub-zones nested inside the zone named Z
NestedIn(Z) == {y \in SubzoneNames : y # Z /\ in_zone(y, Z)}

LiesInOnly(records, Z) ==
    \A r \in records :
        /\ in_zone(r.key[2], Z)
        /\ \A y \in NestedIn(Z) : ~in_zone(r.key[2], y)

\* C8: every record ListResourceRecordSets returns for a zone Z has a name in
\* Z and in no other persisted sub-zone nested inside Z: for the listing last
\* returned, and for the listing of every zone in every state.
C8_ListedInZoneOnly ==
    /\ \A z \in {net_name} \cup ZoneIds : LiesInOnly(ListedRecords(z), ZoneNameOf(z))
    /\ (dns_last.op = "ListResourceRecordSets" /\ dns_last.code = "ok")
          => LiesInOnly(dns_last.listed, ZoneNameOf(dns_last.zone))

\* s.e. has been listed and returned an A record while t.s.e., nested in it,
\* holds a TXT record
C8_Witness ==
    /\ dns_last.op = "ListResourceRecordSets"
    /\ dns_last.code = "ok"
    /\ dns_last.zone # net_name
    /\ ZoneNameOf(dns_last.zone) = Str_sE
    /\ Str_tS \in SubzoneNames
    /\ \E r \in dns_last.listed : r.key = <<"A", Str_wS>>
    /\ DHas(ReadBack, <<"TXT", Str_wT>>)

\* the stored records of the zone named Z: the elements of the <dns> block
\* whose name lies in Z and in no other persisted sub-zone
StoredIn(Z) ==
    LET all == ExtractRecords(net_txts, net_srvs, net_hosts)
    IN  {e \in {all[i] : i \in 1..Len(all)} :
            /\ in_zone(e.key[2], Z)
            /\ \A y \in SubzoneNames \ {Z} : ~in_zone(e.key[2], y)}

\* the record type of a stored record; NS records are TXT elements named @@ns.
StoredType(e) ==
    IF e.key[1] = "TXT" /\ StartsWith(e.key[2], NsPrefix) THEN "NS" ELSE e.key[1]

\* a DeleteHostedZone request on a persisted sub-zone is served in this step
DeleteStep ==
    /\ dns_calls' = dns_calls + 1
    /\ dns_last'.op = "DeleteHostedZone"
    /\ dns_last'.zone \in ZoneIds

DeleteRefusedCleanly ==
    dns_last'.code # "ok" =>
        /\ dns_last'.code = "HostedZoneNotEmpty"
        /\ dns_zones' = dns_zones
        /\ tags' = tags
        /\ dns_changes' = dns_changes

-----------------------------------------------------------------------------
(* The elastic IP handlers, interleaved at their awaits *)

\* the (key, value) pairs of a TagSpecification a request may carry
TagSpecs == {{}, {<<"k", "v">>}}

\* the arguments of an AllocateAddress request
AllocateArgs ==
    {[Address |-> FALSE, Domain |-> d, Tags |-> t] : d \in {"", "vpc"}, t \in TagSpecs}
        \cup {[Address |-> TRUE, Domain |-> "", Tags |-> {}],
              [Address |-> FALSE, Domain |-> "standard", Tags |-> {}]}

\* an AllocationId a request may carry: that of a row, one that names no row,
\* or none
AllocationIdArgs == {r.allocation_id : r \in ip_addresses} \cup {uuid_next + 1, NULL}

\* an AssociationId a request may carry: that of a row, one that names no row
\* (the identifier of an association since replaced or removed included), or
\* none
AssociationIdArgs ==
    {r.association_id : r \in ip_addresses} \cup {uuid_next, uuid_next + 1, NULL}

\* an InstanceId a request may carry: a domain, or none
InstanceIdArgs == domains \cup {NULL}

\* The service starts with two domains, 1 and 2, defined on the host, and a
\* database that earlier runs have left: no address, one address allocated,
\* or that address associated with domain 1.
InitIP ==
    /\ DnsAtRest(0)
    /\ tags = {}
    /\ net_dhcp_start = ip_network_address + 2 + PUBLIC_IP_BLOCK_SIZE
    /\ domains = {1, 2}
    /\ volumes = {}
    /\ \E n \in {0, 1, 2} :
          /\ ip_addresses =
                IF n = 0 THEN {}
                ELSE {[allocation_id |-> 3, ip_address |-> static_ip_range[1],
                       association_id |-> IF n = 2 THEN 4 ELSE NULL,
                       instance_id |-> IF n = 2 THEN 1 ELSE NULL]}
          /\ guest_addrs = [d \in {1, 2} |->
                               IF n = 2 /\ d = 1 THEN {static_ip_range[1]} ELSE {}]
          /\ uuid_next = 2 + n
    /\ RestAtRest
    /\ ec2_tasks = <<>>
    /\ ec2_calls = 0
    /\ ec2_last = [op |-> "none", code |-> "ok", allocation_id |-> NULL,
                   association_id |-> NULL, instance_id |-> NULL, ip_address |-> NULL]

NextIP ==
    \/ \E args \in AllocateArgs : AllocateAddress(args)
    \/ \E alloc_id \in AllocationIdArgs, instance_id \in InstanceIdArgs :
          AssociateAddress(alloc_id, instance_id)
    \/ \E assoc_id \in AssociationIdArgs : DisassociateAddress(assoc_id)
    \/ \E alloc_id \in AllocationIdArgs : ReleaseAddress(alloc_id)
    \/ \E i \in 1..Len(ec2_tasks) : GuestDel(i)
    \/ \E i \in 1..Len(ec2_tasks) : GuestAdd(i)
    \/ \E i \in 1..Len(ec2_tasks) : AssociateFinish(i)
    \/ \E i \in 1..Len(ec2_tasks) : DisassociateFinish(i)

SpecIP == InitIP /\ [][NextIP]_vars

\* C1: whatever AllocateAddress, AssociateAddress, DisassociateAddress and
\* ReleaseAddress requests have been received, answered or failed or still
\* suspended at an await, every row of ip_addresses has association_id NULL
\* if and only if its instance_id is NULL.
C1_AssociationIffInstance ==
    \A r \in ip_addresses : (r.association_id = NULL) <=> (r.instance_id = NULL)

\* an AssociateAddress has just moved the address to domain 2 while another
\* handler is suspended at an await
C1_Witness ==
    /\ ec2_calls = MaxEc2Calls
    /\ ec2_last.op = "AssociateAddress" /\ ec2_last.code = "ok"
    /\ Len(ec2_tasks) > 0
    /\ \E r \in ip_addresses : r.association_id = ec2_last.association_id
                               /\ r.instance_id = 2

\* a ReleaseAddress request is answered
ReleaseStep ==
    /\ ec2_calls' = ec2_calls + 1
    /\ ec2_tasks' = ec2_tasks
    /\ ec2_last'.op = "ReleaseAddress"

\* C12: a ReleaseAddress that names an allocation whose row records an
\* instance is answered InvalidIPAddress.InUse and changes neither
\* ip_addresses nor tags; every row a ReleaseAddress removes recorded no
\* instance and no association.
C12_InUseNotReleased ==
    [][ReleaseStep =>
          /\ (\E r \in ip_addresses : /\ r.allocation_id = ec2_last'.allocation_id
                                        /\ r.instance_id # NULL)
                => /\ ec2_last'.code = "InvalidIPAddress.InUse"
                   /\ ip_addresses' = ip_addresses
                   /\ tags' = tags
          /\ \A r \in ip_addresses \ ip_addresses' :
                r.instance_id = NULL /\ r.association_id = NULL]_vars

\* a ReleaseAddress was refused for an associated address that has a tag row
C12_Witness ==
    /\ ec2_last.op = "ReleaseAddress"
    /\ ec2_last.code = "InvalidIPAddress.InUse"
    /\ \E r \in ip_addresses, t \in tags :
          /\ r.allocation_id = ec2_last.allocation_id
          /\ r.instance_id # NULL
          /\ t[1] = "ip_address" /\ t[2] = r.ip_address

\* the AssociateAddress coroutine i ends at its "ip addr add"
AddFailedStep(i) ==
    /\ ec2_tasks[i].op = "AssociateAddress"
    /\ ec2_tasks[i].pc = "new_add"
    /\ ec2_tasks' = Finished(i)
    /\ ec2_calls' = ec2_calls

\* an AssociateAddress coroutine starts, or moves on without ending
AssociatePending ==
    \/ /\ Len(ec2_tasks') = Len(ec2_tasks) + 1
       /\ ec2_tasks'[Len(ec2_tasks')].op = "AssociateAddress"
    \/ \E i \in 1..Len(ec2_tasks) :
          /\ ec2_tasks[i].op = "AssociateAddress"
          /\ Len(ec2_tasks') = Len(ec2_tasks)
          /\ ec2_tasks' # ec2_tasks
          /\ ec2_tasks' = Resumed(i, ec2_tasks'[i].pc)

\* C13: an AssociateAddress whose "ip addr add" fails in the guest is answered
\* InternalError and leaves every row of ip_addresses, association_id and
\* instance_id included, as it was; the handler has written no row before
\* that point either, so the row is as it was before the call.
C13_FailedAddLeavesRow ==
    [][/\ \A i \in 1..Len(ec2_tasks) :
             AddFailedStep(i) => /\ ec2_last'.op = "AssociateAddress"
                                 /\ ec2_last'.code = "InternalError"
                                 /\ ip_addresses' = ip_addresses
       /\ AssociatePending => ip_addresses' = ip_addresses]_vars

\* an AssociateAddress of an address associated with another domain has
\* failed after the address was removed from that domain
C13_Witness ==
    /\ ec2_last.op = "AssociateAddress"
    /\ ec2_last.code = "InternalError"
    /\ \E r \in ip_addresses :
          /\ r.allocation_id = ec2_last.allocation_id
          /\ r.association_id # NULL
          /\ r.instance_id \in domains \ {ec2_last.instance_id}
          /\ r.ip_address \notin guest_addrs[r.instance_id]
          /\ r.ip_address \notin guest_addrs[ec2_last.instance_id]

-----------------------------------------------------------------------------
(* Allocation and release over a database that is nearly full *)

\* how far beyond the block of PUBLIC_IP_BLOCK_SIZE addresses the DHCP range
\* may start
MaxDhcpExtra == 1

\* the DHCP range starts at the second host (no static range at all), in the
\* middle of the block, at its end, or beyond it
DhcpStarts ==
    {ip_network_address + 2, ip_network_address + 2 + PUBLIC_IP_BLOCK_SIZE \div 2}
        \cup {ip_network_address + 2 + PUBLIC_IP_BLOCK_SIZE + j : j \in 0..MaxDhcpExtra}

\* Earlier runs have allocated no address, or the first PUBLIC_IP_BLOCK_SIZE - 1
\* of the range, the lowest of which may be associated with domain 1.
InitAlloc ==
    /\ DnsAtRest(0)
    /\ tags = {}
    /\ net_dhcp_start \in DhcpStarts
    /\ domains = {1}
    /\ volumes = {}
    /\ \E n \in {0, PUBLIC_IP_BLOCK_SIZE - 1}, associated \in BOOLEAN :
          /\ associated => n > 0
          /\ ip_addresses =
                {[allocation_id |-> 1 + i, ip_address |-> ip_network_address + 1 + i,
                  association_id |-> IF associated /\ i = 1 THEN n + 2 ELSE NULL,
                  instance_id |-> IF associated /\ i = 1 THEN 1 ELSE NULL] : i \in 1..n}
          /\ guest_addrs = [d \in {1} |->
                               IF associated THEN {ip_network_address + 2} ELSE {}]
          /\ uuid_next = IF associated THEN n + 2 ELSE n + 1
    /\ RestAtRest
    /\ ec2_tasks = <<>>
    /\ ec2_calls = 0
    /\ ec2_last = [op |-> "none", code |-> "ok", allocation_id |-> NULL,
                   association_id |-> NULL, instance_id |-> NULL, ip_address |-> NULL]

NextAlloc ==
    \/ \E args \in AllocateArgs : AllocateAddress(args)
    \/ \E alloc_id \in AllocationIdArgs : ReleaseAddress(alloc_id)

SpecAlloc == InitAlloc /\ [][NextAlloc]_vars

\* a request is received and answered in one step, so that ec2_last' is its
\* answer
AnsweredStep == ec2_calls' = ec2_calls + 1 /\ ec2_tasks' = ec2_tasks

\* an AllocateAddress request with arguments the handler accepts
AllocateStep ==
    /\ AnsweredStep
    /\ ec2_last'.op = "AllocateAddress"
    /\ ec2_last'.code \in {"ok", "AddressLimitExceeded"}

\* the addresses of lo..(hi - 1) that no row of ip_addresses holds
Unallocated(lo, hi) == {a \in lo..(hi - 1) : \A r \in ip_addresses : r.ip_address # a}

\* the answer of this step is the lowest address of lo..(hi - 1) that no row
\* holds, or AddressLimitExceeded when there is none
AnswersLowest(lo, hi) ==
    IF Unallocated(lo, hi) = {}
    THEN ec2_last'.code = "AddressLimitExceeded" /\ ip_addresses' = ip_addresses
    ELSE /\ ec2_last'.code = "ok"
         /\ ec2_last'.ip_address \in Unallocated(lo, hi)
         /\ \A a \in Unallocated(lo, hi) : ec2_last'.ip_address <= a
         /\ \E r \in ip_addresses' \ ip_addresses :
               r.ip_address = ec2_last'.ip_address

\* an allocation right after an allocation returns another address
AfterAllocation ==
    (ec2_last.op = "AllocateAddress" /\ ec2_last.code = "ok" /\ ec2_last'.code = "ok")
        => ec2_last'.ip_address # ec2_last.ip_address

-----------------------------------------------------------------------------
(* Creation and deletion of the tagged resources *)

\* the number of requests, Route 53 and EC2 together, a behaviour of SpecTags
\* receives
MaxTagCalls == 3

\* one more request may be received
TagCall == dns_calls + ec2_calls < MaxTagCalls

\* the arguments of a CreateVolume request
CreateVolumeArgs ==
    {[Size |-> TRUE, AvailabilityZone |-> TRUE, Tags |-> t] : t \in TagSpecs}
        \cup {[Size |-> FALSE, AvailabilityZone |-> TRUE, Tags |-> {}],
              [Size |-> TRUE, AvailabilityZone |-> FALSE, Tags |-> {}]}

\* the arguments of a RunInstances request
RunInstancesArgs ==
    {[ImageId |-> i, Tags |-> t, AvailabilityZone |-> "", SubnetId |-> ""] :
        i \in BOOLEAN, t \in TagSpecs}

\* a VolumeId a request may carry: a volume of the pool, a name that names no
\* volume, or none
VolumeIdArgs == volumes \cup {uuid_next + 1, NULL}

\* The service starts with one domain, 1, defined on the host, an empty
\* storage pool and a database that holds no address and at most the sub-zone
\* s.e.
InitTags ==
    /\ \E n \in {0, 1} :
          /\ DnsAtRest(n)
          /\ uuid_next = 2 * n
    /\ tags = {}
    /\ net_dhcp_start = ip_network_address + 2 + PUBLIC_IP_BLOCK_SIZE
    /\ domains = {1}
    /\ guest_addrs = [d \in {1} |-> {}]
    /\ volumes = {}
    /\ ip_addresses = {}
    /\ RestAtRest
    /\ ec2_tasks = <<>>
    /\ ec2_calls = 0
    /\ ec2_last = [op |-> "none", code |-> "ok", allocation_id |-> NULL,
                   association_id |-> NULL, instance_id |-> NULL, ip_address |-> NULL]

NextTags ==
    \/ TagCall /\ \E args \in CreateVolumeArgs : CreateVolume(args)
    \/ TagCall /\ \E volname \in VolumeIdArgs : DeleteVolume(volname)
    \/ TagCall /\ \E args \in RunInstancesArgs : RunInstances(args)
    \/ TagCall /\ \E instance_ids \in SUBSET domains : TerminateInstances(instance_ids)
    \/ TagCall /\ \E args \in AllocateArgs : AllocateAddress(args)
    \/ TagCall /\ \E alloc_id \in AllocationIdArgs : ReleaseAddress(alloc_id)
    \/ TagCall /\ \E name \in ZoneNames : CreateHostedZone(name)
    \/ TagCall /\ \E res_id \in ZoneIdArgs, t \in TagPairs :
                     ChangeTagsForResource(res_id, {t}, {})
    \/ TagCall /\ \E zone_id \in ZoneIdArgs : DeleteHostedZone(zone_id)

SpecTags == InitTags /\ [][NextTags]_vars

\* the resource a tag row names exists
ResourceExists(resource_type, resource_name) ==
    \/ resource_type = "volume" /\ resource_name \in volumes
    \/ resource_type = "instance" /\ resource_name \in domains
    \/ resource_type = "ip_address"
          /\ \E r \in ip_addresses : r.ip_address = resource_name
    \/ resource_type = "hostedzone"
          /\ (resource_name = net_name \/ resource_name \in ZoneIds)

\* C2: after any sequence of create and delete operations on volumes,
\* instances, elastic IPs and hosted zones, no row of the tags table names a
\* resource that no longer exists.
C2_NoDanglingTags == \A t \in tags : ResourceExists(t[1], t[2])

-----------------------------------------------------------------------------
(* Elastic and secondary private addresses on one static range *)

\* the number of addresses of the static range beyond the public block
PrivateBlockSize == 2

\* a NetworkInterfaceId a request may carry: none, one without "::", one
\* that does not start with "eni-", one that names no domain, or that of
\* interface eth0 of a domain
EniArgs ==
    {Eni(FALSE, "", NULL, ""), Eni(TRUE, "eni-", NULL, ""),
     Eni(TRUE, "xni-", 1, "eth0"), Eni(TRUE, "eni-", uuid_next + 1, "eth0")}
        \cup {Eni(TRUE, "eni-", d, "eth0") : d \in domains}

\* the PrivateIpAddress list a request may carry: none, one address or two
PrivateAddrArgs ==
    {<<>>} \cup {<<a>> : a \in PrivateRange}
           \cup {p \in PrivateRange \X PrivateRange : p[1] # p[2]}

\* The service starts with domain 1 defined on the host, over a network whose
\* static range holds PrivateBlockSize addresses beyond the public block, and
\* a database that earlier runs have left: no elastic address or the whole
\* public block allocated, and no private address or the first of the private
\* block assigned to eth0 of domain 1.
InitPrivate ==
    /\ DnsAtRest(0)
    /\ tags = {}
    /\ net_dhcp_start = ip_network_address + 2 + PUBLIC_IP_BLOCK_SIZE + PrivateBlockSize
    /\ domains = {1}
    /\ volumes = {}
    /\ \E n \in {0, PUBLIC_IP_BLOCK_SIZE}, m \in {0, 1} :
          /\ ip_addresses =
                {[allocation_id |-> i, ip_address |-> ip_network_address + 1 + i,
                  association_id |-> NULL, instance_id |-> NULL] : i \in 1..n}
          /\ private_ip_addresses =
                {[ip_address |-> ip_network_address + 1 + PUBLIC_IP_BLOCK_SIZE + k,
                  instance_id |-> 1, interface |-> "eth0"] : k \in 1..m}
          /\ private_committed = private_ip_addresses
          /\ guest_addrs = [d \in {1} |->
                               {ip_network_address + 1 + PUBLIC_IP_BLOCK_SIZE + k : k \in 1..m}]
          /\ uuid_next = n
    /\ vol_attachments = {}
    /\ known_attachments = {}
    /\ timers = <<>>
    /\ InstancesAtRest
    /\ ec2_tasks = <<>>
    /\ ec2_calls = 0
    /\ ec2_last = [op |-> "none", code |-> "ok", allocation_id |-> NULL,
                   association_id |-> NULL, instance_id |-> NULL, ip_address |-> NULL]

NextPrivate ==
    \/ \E args \in {a \in AllocateArgs : a.Tags = {}} : AllocateAddress(args)
    \/ \E alloc_id \in AllocationIdArgs : ReleaseAddress(alloc_id)
    \/ \E eni \in EniArgs, count \in 0..PrivateBlockSize : AssignPrivateIpAddresses(eni, count)
    \/ \E i \in 1..Len(ec2_tasks) : AssignStep(i)
    \/ \E eni \in EniArgs, addrs \in PrivateAddrArgs : UnassignPrivateIpAddresses(eni, addrs)
    \/ \E i \in 1..Len(ec2_tasks) : UnassignStep(i)

SpecPrivate == InitPrivate /\ [][NextPrivate]_vars

\* the AssignPrivateIpAddresses coroutine i ends with an error
AssignFailedStep(i) ==
    /\ ec2_tasks[i].op = "AssignPrivateIpAddresses"
    /\ ec2_tasks' = Finished(i)
    /\ ec2_calls' = ec2_calls
    /\ ec2_last'.code # "ok"

\* an AssignPrivateIpAddresses is refused for want of free addresses
AssignRefusedStep ==
    /\ ec2_calls' = ec2_calls + 1
    /\ ec2_tasks' = ec2_tasks
    /\ ec2_last'.op = "AssignPrivateIpAddresses"
    /\ ec2_last'.code = "AddressLimitExceeded"

\* the addresses private_ip_addresses holds, as app["db"] reads them
PrivateAddrs == {r.ip_address : r \in private_ip_addresses}

\* C14: once a failed AssignPrivateIpAddresses has returned,
\* private_ip_addresses holds none of the rows the call inserted: the
\* addresses it drew when "ip addr add" failed, and every address that was
\* free when it found fewer than asked for.
C14_FailedAssignLeavesNoRow ==
    [][/\ \A i \in 1..Len(ec2_tasks) :
             AssignFailedStep(i) =>
                \A k \in 1..Len(ec2_tasks[i].addrs) :
                   ec2_tasks[i].addrs[k] \notin PrivateAddrs'
       /\ AssignRefusedStep =>
             \A a \in PrivateRange \ PrivateAddrs : a \notin PrivateAddrs']_vars

\* the addresses of the rows that are committed
CommittedAddrs == {r.ip_address : r \in private_committed}

\* C15: the writes of a handler that awaits between its writes and its commit
\* form one transaction: when the handler fails, none of its writes is
\* committed, whatever other handlers have committed on the connection while
\* it was suspended.  For AssignPrivateIpAddresses, which inserts its rows
\* and then awaits the guest agent: no row it inserted is committed when it
\* ends with an error.
C15_FailedWritesNotCommitted ==
    [][\A i \in 1..Len(ec2_tasks) :
          AssignFailedStep(i) =>
             \A k \in 1..Len(ec2_tasks[i].addrs) :
                ec2_tasks[i].addrs[k] \notin CommittedAddrs']_vars

\* C11: elastic addresses lie in the public block (the first
\* PUBLIC_IP_BLOCK_SIZE addresses of the static range), secondary private
\* addresses in the rest of the static range, and no address is both in
\* ip_addresses and in private_ip_addresses.
C11_RangePartitioned ==
    /\ \A r \in ip_addresses :
          r.ip_address \in static_ip_range[1] .. (static_ip_range[1] + PUBLIC_IP_BLOCK_SIZE - 1)
    /\ \A r \in private_ip_addresses :
          r.ip_address \in (static_ip_range[1] + PUBLIC_IP_BLOCK_SIZE) .. (static_ip_range[2] - 1)
    /\ {r.ip_address : r \in ip_addresses} \cap {r.ip_address : r \in private_ip_addresses} = {}

-----------------------------------------------------------------------------
(* The attachment tracker *)

\* a Device a request may carry: none, or a target name
DeviceArgs == {"", "vdb"}

\* The service starts with domains 1 and 2 and volumes 1 and 2, and an empty
\* tracker; volume 2 may be a disk of domain 2 already, attached before the
\* service started.
InitVol ==
    /\ DnsAtRest(0)
    /\ tags = {}
    /\ uuid_next = 2
    /\ net_dhcp_start = ip_network_address + 2 + PUBLIC_IP_BLOCK_SIZE
    /\ domains = {1, 2}
    /\ guest_addrs = [d \in {1, 2} |-> {}]
    /\ volumes = {1, 2}
    /\ ip_addresses = {}
    /\ private_ip_addresses = {}
    /\ private_committed = {}
    /\ vol_attachments \in {{}, {[volume |-> 2, domain |-> 2, device |-> "vdb"]}}
    /\ known_attachments = {}
    /\ timers = <<>>
    /\ InstancesAtRest
    /\ ec2_tasks = <<>>
    /\ ec2_calls = 0
    /\ ec2_last = [op |-> "none", code |-> "ok", allocation_id |-> NULL,
                   association_id |-> NULL, instance_id |-> NULL, ip_address |-> NULL]

NextVol ==
    \/ \E instance_id \in InstanceIdArgs, volume_id \in VolumeIdArgs, device \in DeviceArgs :
          AttachVolume(instance_id, volume_id, device)
    \/ \E instance_id \in InstanceIdArgs, volume_id \in VolumeIdArgs :
          DetachVolume(instance_id, volume_id)
    \/ TimerFires

SpecVol == InitVol /\ [][NextVol]_vars

\* the event loop runs every callback it has scheduled
SpecVolTimed == SpecVol /\ WF_vars(TimerFires)

\* an AttachVolume request is answered
AttachStep ==
    /\ ec2_calls' = ec2_calls + 1
    /\ ec2_last'.op = "AttachVolume"

\* the statuses of the attachments of a volume: those libvirt reports, by the
\* tracker's entry or "attached" without one, and the tracker's entries for
\* the pairs libvirt does not report
StatusesOf(volume) ==
    LET reported == {b \in vol_attachments : b.volume = volume}
        recorded == {k \in known_attachments : k.volume = volume}
    IN  {IF \E k \in recorded : k.domain = b.domain
         THEN (CHOOSE k \in recorded : k.domain = b.domain).status
         ELSE "attached" : b \in reported}
        \cup {k.status : k \in {e \in recorded : \A b \in reported : b.domain # e.domain}}

\* the volume has an attachment that is not detached
InUse(volume) == StatusesOf(volume) \ {"detached"} # {}

\* nothing is attached, and the tracker and its timers are as they were
NothingAttached ==
    /\ vol_attachments' = vol_attachments
    /\ known_attachments' = known_attachments
    /\ timers' = timers

\* C16: an AttachVolume that names a volume of the pool with an attachment,
\* reported by libvirt or recorded by the tracker, whose status is not
\* detached fails, attaches no disk and leaves the tracker and its timers as
\* they were; when the request is well formed and names a domain, the error
\* is IncorrectState.
C16_InUseNotAttached ==
    [][/\ (AttachStep /\ ec2_last'.allocation_id \in volumes
                       /\ InUse(ec2_last'.allocation_id))
             => (ec2_last'.code # "ok" /\ NothingAttached)
       /\ \A instance_id \in domains, volume_id \in volumes :
             (AttachVolume(instance_id, volume_id, "vdb") /\ InUse(volume_id))
                => ec2_last'.code = "IncorrectState"]_vars

\* an AttachVolume was refused for a volume whose only attachment is one
\* the tracker records as detaching and libvirt no longer reports
C16_Witness ==
    /\ ec2_last.op = "AttachVolume"
    /\ ec2_last.code = "IncorrectState"
    /\ GetVolAttachments(ec2_last.allocation_id) = {}
    /\ \E k \in known_attachments :
          k.volume = ec2_last.allocation_id /\ k.status = "detaching"

\* the status the tracker records for a pair, "none" without an entry
TrackerStatus(volume, domain) ==
    IF Known(volume, domain) = {} THEN "none"
    ELSE (CHOOSE k \in Known(volume, domain) : TRUE).status

\* a DetachVolume of the pair has scheduled a callback that has yet to run
DetachPending(volume, domain) ==
    \E n \in 1..Len(timers) :
       /\ timers[n].status = "detached"
       /\ timers[n].volume = volume
       /\ timers[n].domain = domain

\* a DetachVolume request for the pair is answered
DetachStepOf(volume, domain) ==
    /\ ec2_calls' = ec2_calls + 1
    /\ ec2_last'.op = "DetachVolume"
    /\ ec2_last'.allocation_id = volume
    /\ ec2_last'.instance_id = domain

StatusRank(status) ==
    CASE status = "attaching" -> 1
      [] status = "attached" -> 2
      [] status = "detaching" -> 3
      [] status = "detached" -> 4

\* C18: whatever the interleaving of AttachVolume, DetachVolume and timer
\* callbacks, the status the tracker records for a pair only moves forward
\* along attaching, attached, detaching, detached (a successful AttachVolume
\* starting over from detached apart); in particular no callback takes an
\* entry that is detaching or detached back to attached.
C18_StatusOnlyForward ==
    [][\A k \in known_attachments, n \in known_attachments' :
          k.volume = n.volume /\ k.domain = n.domain
             => \/ StatusRank(n.status) >= StatusRank(k.status)
                \/ /\ AttachStep /\ ec2_last'.code = "ok"
                   /\ k.status = "detached" /\ n.status = "attaching"]_vars

\* C19: DescribeVolumes reports a volume available exactly when every
\* attachment of it, among those libvirt reports (with the tracker's status,
\* or attached without an entry) and the tracker's entries libvirt does not
\* report, is detached, and in-use otherwise.
C19_AvailableIffAllDetached ==
    \A volume \in volumes :
       /\ DescribeVolume(volume).status = "available" <=> StatusesOf(volume) \subseteq {"detached"}
       /\ DescribeVolume(volume).status = "in-use" <=> ~(StatusesOf(volume) \subseteq {"detached"})

\* one volume is a disk of a domain without an entry in the tracker, and
\* another has only an entry that is detached
C19_Witness ==
    /\ \E a \in vol_attachments : Known(a.volume, a.domain) = {}
    /\ \E k \in known_attachments :
          /\ k.status = "detached"
          /\ GetVolAttachments(k.volume) = {}
          /\ DescribeVolume(k.volume).status = "available"

-----------------------------------------------------------------------------
(* The instance table *)

\* The service starts with the tables init_db has created, and with none,
\* one or both of the domains 1 and 2 defined on the host.
InitInst ==
    /\ DnsAtRest(0)
    /\ uuid_next = 2
    /\ tags = {}
    /\ net_dhcp_start = ip_network_address + 2 + PUBLIC_IP_BLOCK_SIZE
    /\ domains \in SUBSET {1, 2}
    /\ guest_addrs = [d \in domains |-> {}]
    /\ volumes = {}
    /\ ip_addresses = {}
    /\ RestAtRest
    /\ ec2_tasks = <<>>
    /\ ec2_calls = 0
    /\ ec2_last = [op |-> "none", code |-> "ok", allocation_id |-> NULL,
                   association_id |-> NULL, instance_id |-> NULL, ip_address |-> NULL]

NextInst ==
    \/ \E args \in RunInstancesArgs : RunInstances(args)
    \/ \E instance_ids \in SUBSET {1, 2} : TerminateInstances(instance_ids)
    \/ \E instance_id \in {NULL, 1, 2} : StopInstances(instance_id)
    \/ \E instance_id \in {NULL, 1, 2} : DescribeInstances(instance_id)

SpecInst == InitInst /\ [][NextInst]_vars

\* the states an instance row may record
InstanceStates == {"running", "stopping", "stopped", "terminated"}

\* C20: the state every instance row records is one of running, stopping,
\* stopped and terminated; so is the state DescribeInstances writes when it
\* refreshes a row, whichever of the libvirt states 0 to 7 it observes; and
\* the check of the ec2_instance table created at startup accepts each of the
\* four.
C20_InstanceStatesPersisted ==
    /\ \A row \in ec2_instance : row.state \in InstanceStates
    /\ \A virstate \in 0..7 : domain_state_lookup[virstate] \in InstanceStates
    /\ \A state \in InstanceStates : state \in InstanceStateCheck

-----------------------------------------------------------------------------
(* The instance rows of a database file that has the handlers' table *)

\* the arguments of a RunInstances request that names its placement
PlacedRunArgs ==
    {[ImageId |-> TRUE, Tags |-> {}, AvailabilityZone |-> "", SubnetId |-> ""],
     [ImageId |-> TRUE, Tags |-> {}, AvailabilityZone |-> "az-b", SubnetId |-> "subnet-b"],
     [ImageId |-> FALSE, Tags |-> {}, AvailabilityZone |-> "", SubnetId |-> ""]}

\* the states of a domain the host is seen in: running, being shut down,
\* shut off
VirStates == {1, 4, 5}

\* every state a statement of handlers/instances.py writes
StatesWritten == {domain_state_lookup[v] : v \in 0..7} \cup {"running", "stopping", "terminated"}

\* The service starts on a database file in which CREATE TABLE IF NOT EXISTS
\* finds no ec2_instance table and creates it, or finds the table an earlier
\* run left, with the columns the handlers name, with or without the check on
\* state.  Instance 1 is running, and with the handlers' table it has its row.
InitShadow ==
    /\ DnsAtRest(0)
    /\ uuid_next = 1
    /\ tags = {}
    /\ net_dhcp_start = ip_network_address + 2 + PUBLIC_IP_BLOCK_SIZE
    /\ domains = {1}
    /\ guest_addrs = [d \in domains |-> {}]
    /\ volumes = {}
    /\ ip_addresses = {}
    /\ private_ip_addresses = {}
    /\ private_committed = {}
    /\ vol_attachments = {}
    /\ known_attachments = {}
    /\ timers = <<>>
    /\ instance_table \in {StartupTable,
                           [columns |-> HandlerColumns, check |-> InstanceStateCheck],
                           [columns |-> HandlerColumns, check |-> StatesWritten]}
    /\ ec2_instance = IF instance_table = StartupTable THEN {}
                      ELSE {[id |-> 1, state |-> "running",
                             availability_zone |-> "default-1a",
                             subnet_id |-> "subnet-default", terminated_at |-> NULL]}
    /\ instance_committed = ec2_instance
    /\ virstates = [d \in domains |-> 1]
    /\ clock = 1
    /\ instance_disks = domains
    /\ ec2_tasks = <<>>
    /\ ec2_calls = 0
    /\ ec2_last = [op |-> "none", code |-> "ok", allocation_id |-> NULL,
                   association_id |-> NULL, instance_id |-> NULL, ip_address |-> NULL]

\* an InstanceId a request may carry: a domain, an instance that had a row,
\* or none
ShadowIdArgs == {NULL} \cup domains \cup {row.id : row \in ec2_instance}

NextShadow ==
    \/ \E args \in PlacedRunArgs : RunInstances(args)
    \/ \E instance_ids \in SUBSET (ShadowIdArgs \ {NULL}) : TerminateInstances(instance_ids)
    \/ \E instance_id \in ShadowIdArgs : StopInstances(instance_id)
    \/ \E i \in 1..Len(ec2_tasks) : StopWakes(i)
    \/ \E instance_id \in ShadowIdArgs : DescribeInstances(instance_id)
    \/ \E virdom \in domains, virstate \in VirStates : DomainChanges(virdom, virstate)
    \/ Tick

SpecShadow == InitShadow /\ [][NextShadow]_vars

\* a step in which StopInstances answers for the instance: the request ends
\* at once, or a suspended stop_instances wakes and returns
StopReturns(instance_id) ==
    /\ ec2_last' = [op |-> "StopInstances", code |-> "ok", allocation_id |-> NULL,
                    association_id |-> NULL, instance_id |-> instance_id,
                    ip_address |-> NULL]
    /\ \/ ec2_calls' = ec2_calls + 1 /\ ec2_tasks' = ec2_tasks
       \/ Len(ec2_tasks') < Len(ec2_tasks)

\* C21: StopInstances returns for an instance only when libvirt reports the
\* domain stopped, and when it returns the row of the instance has state
\* stopped.
C21_StopReturnsStopped ==
    [][\A instance_id \in domains :
          StopReturns(instance_id) =>
             /\ domain_state_lookup[virstates'[instance_id]] = "stopped"
             /\ \A row \in ec2_instance' :
                   (row.id = instance_id) => (row.state = "stopped")]_vars

\* a step in which RunInstances is received
RunStep == ec2_calls' = ec2_calls + 1 /\ ec2_last'.op = "RunInstances"

\* C22: a terminated instance row keeps its state and its terminated_at in
\* every step, whatever request is served and however the requests
\* interleave, until the garbage collection of RunInstances deletes it.
C22_TerminatedAbsorbing ==
    [][\A row \in ec2_instance :
          (row.state = "terminated") =>
             \/ row \in ec2_instance'
             \/ RunStep /\ (\A next \in ec2_instance' : next.id # row.id)]_vars

\* C22: StopInstances has been answered for an instance whose row is
\* terminated, more than a minute after the termination.
C22_Witness ==
    \E row \in ec2_instance :
       /\ row.state = "terminated"
       /\ row.terminated_at < clock
       /\ ec2_last.op = "StopInstances"
       /\ ec2_last.instance_id = row.id

\* a step in which DescribeInstances is received for the instance
DescribeStep(instance_id) ==
    /\ ec2_calls' = ec2_calls + 1
    /\ ec2_last'.op = "DescribeInstances"
    /\ ec2_last'.instance_id = instance_id

\* the row was terminated less than 2 minutes ago
FreshlyTerminated(row) ==
    row.state = "terminated" /\ clock - row.terminated_at < GcAge

\* C23: no step removes an instance row that is not terminated or that was
\* terminated less than 2 minutes ago, and a DescribeInstances received
\* for an instance terminated less than 2 minutes ago answers with state
\* terminated and the availability zone and subnet id of the row.
C23_TerminatedRowSurvives ==
    [][\A row \in ec2_instance :
          /\ (row.terminated_at = NULL \/ FreshlyTerminated(row))
                => (\E next \in ec2_instance' : next.id = row.id)
          /\ (FreshlyTerminated(row) /\ DescribeStep(row.id))
                => /\ ec2_last'.code = "ok"
                   /\ ec2_last'.instanceState = "terminated"
                   /\ ec2_last'.availabilityZone = row.availability_zone
                   /\ ec2_last'.subnetId = row.subnet_id]_vars

\* C23: DescribeInstances has answered terminated, with the placement
\* RunInstances recorded, for an instance terminated less than 2 minutes
\* ago, after a RunInstances that ran the garbage collection.
C23_Witness ==
    /\ ec2_last.op = "DescribeInstances"
    /\ ec2_last.code = "ok"
    /\ ec2_last.instance_id # NULL
    /\ ec2_last.instanceState = "terminated"
    /\ ec2_last.availabilityZone = "az-b"
    /\ ec2_last.subnetId = "subnet-b"
    /\ \E row \in ec2_instance :
          /\ row.id = ec2_last.instance_id
          /\ FreshlyTerminated(row)
          /\ row.terminated_at > 1

\* C24: a DescribeInstances received more than 2 minutes after the instance
\* was terminated does not find the row, whatever requests were served in
\* between.
C24_CollectedAfterTwoMinutes ==
    [][\A row \in ec2_instance :
          (/\ row.state = "terminated"
           /\ clock - row.terminated_at > GcAge
           /\ DescribeStep(row.id))
             => ec2_last'.code = "InvalidInstanceID.NotFound"]_vars

\* C25: when DescribeInstances answers for an instance that is not
\* terminated, the state in the response is the one mapped from the libvirt
\* state of the domain, and the row of the instance holds that state.
C25_DescribeReportsLive ==
    [][\A row \in ec2_instance :
          (/\ row.state # "terminated"
           /\ DescribeStep(row.id)
           /\ ec2_last'.code = "ok")
             => /\ ec2_last'.instanceState = domstate(row.id)
                /\ \A next \in ec2_instance' :
                      (next.id = row.id) => (next.state = domstate(row.id))]_vars

-----------------------------------------------------------------------------
(* handlers/_routing.py: the dispatcher *)

\* Python's None: a header, a bound action or a form field that is absent
None == "None"

\* _handlers: the (action, method) pairs @handler and @direct_handler have
\* registered, for two EC2 actions, one JSON action and three Route 53 actions
Handlers ==
    {<<"DescribeInstances", "GET">>, <<"DescribeInstances", "POST">>,
     <<"DescribeVolumes", "GET">>, <<"DescribeVolumes", "POST">>,
     <<"AmazonSSM.SendCommand", "POST">>,
     <<"CreateHostedZone", "POST">>, <<"ListHostedZones", "GET">>,
     <<"DeleteHostedZone", "DELETE">>}

\* the routes of the application: handler registers handle_request for
\* (method, "/"), direct_handler registers partial(handle_request,
\* action=action) for (method, path)
Routes ==
    {[method |-> "GET", path |-> "/", action |-> None],
     [method |-> "POST", path |-> "/", action |-> None],
     [method |-> "POST", path |-> "/2013-04-01/hostedzone", action |-> "CreateHostedZone"],
     [method |-> "GET", path |-> "/2013-04-01/hostedzone", action |-> "ListHostedZones"],
     [method |-> "DELETE", path |-> "/2013-04-01/hostedzone/{Id}",
      action |-> "DeleteHostedZone"]}

\* request.post(): the Action field of the form-urlencoded body; aiohttp
\* reads no form from a GET request
PostAction(request) == IF request.method = "GET" THEN None ELSE request.form

\* handle_request up to the handler lookup: the action the request is
\* dispatched under, or InvalidAction.  action: the keyword argument the
\* route was registered with.
handle_request(request, action) ==
    LET action1 == IF action = None THEN request.header ELSE action
        action2 == IF action1 = None THEN PostAction(request) ELSE action1
    IN  IF action2 = None THEN [code |-> "InvalidAction", action |-> None]
        ELSE IF <<action2, request.method>> \notin Handlers
        THEN [code |-> "InvalidAction", action |-> action2]
        ELSE [code |-> "dispatched", action |-> action2]

\* an X-Amz-Target header or an Action field a request may carry
ActionArgs == {None, "DescribeInstances", "AmazonSSM.SendCommand", "ListHostedZones"}

\* a request arrives on one of the routes
Receive(route, header, form) ==
    /\ http.pc # "received"
    /\ http' = [pc |-> "received", route |-> route,
                request |-> [method |-> route.method, path |-> route.path,
                             header |-> header, form |-> form]]
    /\ UNCHANGED <<appVars, decoder, agent>>

\* the route calls handle_request
HandleRequest ==
    /\ http.pc = "received"
    /\ http' = [http EXCEPT !.pc = "answered"] @@
               [outcome |-> handle_request(http.request, http.route.action)]
    /\ UNCHANGED <<appVars, decoder, agent>>

InitRoute ==
    /\ DnsAtRest(0)
    /\ uuid_next = 0
    /\ tags = {}
    /\ Ec2AtRest

NextRoute ==
    \/ \E route \in Routes, header \in ActionArgs, form \in ActionArgs :
          Receive(route, header, form)
    \/ HandleRequest

SpecRoute == InitRoute /\ [][NextRoute]_vars

\* the action the request names, in the order header, bound action, form
\* field
ActionByHeaderFirst(request, action) ==
    IF request.header # None THEN request.header
    ELSE IF action # None THEN action
    ELSE PostAction(request)

\* C26: a request is dispatched under the first of its X-Amz-Target header,
\* the action bound to its route and its Action form field that is present,
\* when that action is registered for the method, and fails with InvalidAction
\* otherwise.
C26_HeaderThenBoundThenForm ==
    (http.pc = "answered") =>
        LET action == ActionByHeaderFirst(http.request, http.route.action)
        IN  IF action # None /\ <<action, http.request.method>> \in Handlers
            THEN http.outcome = [code |-> "dispatched", action |-> action]
            ELSE http.outcome.code = "InvalidAction"

-----------------------------------------------------------------------------
(* handlers/_routing.py: the argument decoder *)

\* An argument tree is the set of its nodes [path, kind, value]: path is the
\* sequence of subscripts that leads from args to the node, kind is "dict",
\* "list" (a SparseList), "str" or "None", value is the string of a "str"
\* node.  A subscript is a name, or a 0-based list index written Idx(k).

\* the number of elements a list of a request may have
MaxIndex == 3

\* the decimal numeral of a 1-based index
Numeral == <<"1", "2", "3", "4">>

\* the subscript of the k-th element of a list, k from 0
Idx(k) == <<"[0]", "[1]", "[2]", "[3]">>[k + 1]

IsIndex(subkey) == \E k \in 0..(MaxIndex - 1) : Idx(k) = subkey

IndexOf(subkey) == CHOOSE k \in 0..(MaxIndex - 1) : Idx(k) = subkey

\* path[i].isnumeric()
isnumeric(segment) == \E n \in 1..MaxIndex : Numeral[n] = segment

\* int(path[i])
int(segment) == CHOOSE n \in 1..MaxIndex : Numeral[n] = segment

\* subkey = int(path[i]) - 1 if path[i].isnumeric() else path[i]
Subkey(segment) == IF isnumeric(segment) THEN Idx(int(segment) - 1) ELSE segment

TreeNode(path, kind, value) == [path |-> path, kind |-> kind, value |-> value]

\* the node a path leads to
NodeAt(tree, path) == CHOOSE node \in tree : node.path = path

HasNode(tree, path) == \E node \in tree : node.path = path

\* p is a proper prefix of q
Under(p, q) == Len(p) < Len(q) /\ SubSeq(q, 1, Len(p)) = p

\* len(ptr) of a list
ListLen(tree, ptr) ==
    Cardinality({node \in tree : Len(node.path) = Len(ptr) + 1 /\ Under(ptr, node.path)})

\* ptr[subkey]: the subscript is found ("ok"), raises KeyError or IndexError
\* ("miss"), or raises TypeError
Subscript(tree, ptr, subkey) ==
    LET kind == NodeAt(tree, ptr).kind
    IN  CASE kind = "dict" ->
               IF HasNode(tree, ptr \o <<subkey>>) THEN "ok" ELSE "miss"
          [] kind = "list" ->
               IF ~IsIndex(subkey) THEN "TypeError"
               ELSE IF IndexOf(subkey) < ListLen(tree, ptr) THEN "ok" ELSE "miss"
          [] OTHER -> "TypeError"

\* ptr[subkey] = node, after ptr[subkey] has raised KeyError or IndexError;
\* SparseList.__setitem__ extends the list with None up to the index
SetItem(tree, ptr, subkey, kind, value) ==
    tree \cup {TreeNode(ptr \o <<subkey>>, kind, value)}
         \cup IF NodeAt(tree, ptr).kind = "list"
              THEN {TreeNode(ptr \o <<Idx(k)>>, "None", "") :
                       k \in ListLen(tree, ptr)..(IndexOf(subkey) - 1)}
              ELSE {}

\* the while loop of parse_args from path[i] on, for one (k, v) of data
RECURSIVE Walk(_, _, _, _, _)
Walk(st, ptr, path, i, v) ==
    IF st.raised # "" \/ i > Len(path) THEN st
    ELSE LET subkey == Subkey(path[i])
             found == Subscript(st.tree, ptr, subkey)
         IN  IF found = "TypeError" THEN [st EXCEPT !.raised = "TypeError"]
             ELSE IF found = "ok" THEN Walk(st, ptr \o <<subkey>>, path, i + 1, v)
             ELSE IF i = Len(path)
             THEN [st EXCEPT !.tree = SetItem(st.tree, ptr, subkey, "str", v)]
             ELSE Walk([st EXCEPT !.tree =
                           SetItem(st.tree, ptr, subkey,
                                   IF isnumeric(path[i + 1]) THEN "list" ELSE "dict", "")],
                       ptr \o <<subkey>>, path, i + 1, v)

\* args[k] = v
SetTop(tree, k, v) ==
    {node \in tree : ~(node.path = <<k>> \/ Under(<<k>>, node.path))}
        \cup {TreeNode(<<k>>, "str", v)}

\* the for loop of parse_args from the n-th (k, v) of data on; a key is the
\* sequence k.split(".")
RECURSIVE ParseFrom(_, _, _)
ParseFrom(st, data, n) ==
    IF n > Len(data) THEN st
    ELSE LET path == data[n][1]
             v == data[n][2]
         IN  ParseFrom(IF st.raised # "" THEN st
                       ELSE IF Len(path) = 1
                       THEN [st EXCEPT !.tree = SetTop(st.tree, path[1], v)]
                       ELSE Walk(st, <<>>, path, 1, v),
                       data, n + 1)

\* parse_args(data): the tree args, or the TypeError it raises
parse_args(data) ==
    ParseFrom([tree |-> {TreeNode(<<>>, "dict", "")}, raised |-> ""], data, 1)

\* the keys of the forms a request may carry: k, a.1, a.2, a.3, a.1.b,
\* a.3.b, m.b, m.c
KeyPaths ==
    {<<"k">>, <<"a", "1">>, <<"a", "2">>, <<"a", "3">>, <<"a", "1", "b">>,
     <<"a", "3", "b">>, <<"m", "b">>, <<"m", "c">>}

\* the most parameters a form carries
MaxParams == 3

\* no key runs through the leaf of another, and the subscripts of one
\* container are all names or all indices
Consistent(keys) ==
    \A p, q \in keys :
       /\ ~Under(p, q)
       /\ \A n \in 0..(Len(p) - 1) :
             (n < Len(q) /\ SubSeq(p, 1, n) = SubSeq(q, 1, n))
                => (isnumeric(p[n + 1]) <=> isnumeric(q[n + 1]))

\* the subscripts a key names
SubPath(key) == [i \in 1..Len(key) |-> Subkey(key[i])]

\* the argument tree with the given leaves: a set of <<key, value>> with
\* distinct, consistent keys.  An index of a list below a present one and
\* that no key names is None.
TreeOf(leaves) ==
    LET tidy == {TreeNode(SubSeq(SubPath(x[1][1]), 1, x[2]),
                          IF isnumeric(x[1][1][x[2] + 1]) THEN "list" ELSE "dict", "") :
                    x \in {y \in leaves \X (0..2) : y[2] < Len(y[1][1])}}
        strs == {TreeNode(SubPath(l[1]), "str", l[2]) : l \in leaves}
        nodes == tidy \cup strs
        gaps == {TreeNode(node.path \o <<Idx(k)>>, "None", "") :
                    node \in {n \in nodes : n.kind = "list"}, k \in 0..(MaxIndex - 1)}
    IN  nodes \cup
        {g \in gaps :
            /\ ~HasNode(nodes, g.path)
            /\ \E node \in nodes :
                  /\ Len(node.path) = Len(g.path)
                  /\ Under(SubSeq(g.path, 1, Len(g.path) - 1), node.path)
                  /\ IndexOf(node.path[Len(node.path)]) > IndexOf(g.path[Len(g.path)])}

\* the argument trees a client may send
Trees ==
    {TreeOf(leaves) :
        leaves \in {L \in SUBSET (KeyPaths \X {"x", "y"}) :
                       /\ Cardinality(L) \in 1..MaxParams
                       /\ \A l, r \in L : (l[1] = r[1]) => (l = r)
                       /\ Consistent({l[1] : l \in L})}}

\* the dotted key of a path of subscripts: list indices are 1-based
DottedKey(path) ==
    [i \in 1..Len(path) |->
        IF IsIndex(path[i]) THEN Numeral[IndexOf(path[i]) + 1] ELSE path[i]]

\* the form dialect: one key = value per string leaf of the tree
Encode(tree) == {<<DottedKey(node.path), node.value>> : node \in {n \in tree : n.kind = "str"}}

\* a form arrives: the parameters of the encoding of a tree, in the order
\* the client has written them
ReceiveForm(tree, data) ==
    /\ decoder.pc = "idle"
    /\ decoder' = [pc |-> "received", tree |-> tree, data |-> data]
    /\ UNCHANGED <<appVars, http, agent>>

\* handle_ec2_request calls parse_args(data)
ParseArgs ==
    /\ decoder.pc = "received"
    /\ decoder' = [pc |-> "parsed", tree |-> decoder.tree, data |-> decoder.data,
                args |-> parse_args(decoder.data).tree,
                raised |-> parse_args(decoder.data).raised]
    /\ UNCHANGED <<appVars, http, agent>>

InitArgs ==
    /\ DnsAtRest(0)
    /\ uuid_next = 0
    /\ tags = {}
    /\ Ec2AtRest

NextArgs ==
    \/ \E tree \in Trees : \E data \in IterationOrders(Encode(tree)) :
          ReceiveForm(tree, data)
    \/ ParseArgs

SpecArgs == InitArgs /\ [][NextArgs]_vars

\* C27: parse_args decodes the dotted-key encoding of an argument tree of
\* string leaves, mappings and 1-based lists to that tree, with None at the
\* list indices the encoding does not name.
C27_DecodeEncodeIsIdentity ==
    (decoder.pc = "parsed") => (decoder.raised = "" /\ decoder.args = decoder.tree)

\* C31: whatever the order in which the form lists its parameters,
\* parse_args raises nothing, the tree it returns holds every supplied value
\* at the place its key names, and every other order of the same parameters
\* gives the same tree.
C31_OrderIndependent ==
    (decoder.pc = "parsed") =>
        /\ decoder.raised = ""
        /\ \A n \in 1..Len(decoder.data) :
              TreeNode(SubPath(decoder.data[n][1]), "str", decoder.data[n][2])
                 \in decoder.args
        /\ \A other \in IterationOrders({decoder.data[n] : n \in 1..Len(decoder.data)}) :
              parse_args(other) = [tree |-> decoder.args, raised |-> ""]

-----------------------------------------------------------------------------
(* qemu.py: commands run through the guest agent *)

\* the seconds a behaviour follows a call for
MaxElapsed == 7

\* timeout_sec: float = 5.0
DefaultTimeout == 5

\* agent_exec is called; agent_command submits guest-exec through
\* loop.run_in_executor.  elapsed: the seconds since the call; waited: the
\* seconds since asyncio.wait_for was entered.
AgentExec(timeout_sec) ==
    /\ agent.pc = "idle"
    /\ agent' = [pc |-> "guest-exec", timeout_sec |-> timeout_sec, elapsed |-> 0,
                 waited |-> 0, outcome |-> "", exitcode |-> 0]
    /\ UNCHANGED <<appVars, http, decoder>>

\* qemuAgentCommand returns the pid of the guest process, or raises
\* libvirtError; agent_exec enters asyncio.wait_for(_loop(), timeout_sec)
ExecReturns(raised) ==
    /\ agent.pc = "guest-exec"
    /\ agent' = IF raised
                THEN [agent EXCEPT !.pc = "done", !.outcome = "libvirtError"]
                ELSE [agent EXCEPT !.pc = "guest-exec-status"]
    /\ UNCHANGED <<appVars, http, decoder>>

\* qemuAgentCommand returns the status of the guest process, or raises
\* libvirtError: _loop returns the RemoteProcess when the process has
\* exited, and sleeps otherwise
StatusReturns(raised, exited, exitcode) ==
    /\ agent.pc = "guest-exec-status"
    /\ agent' = IF raised
                THEN [agent EXCEPT !.pc = "done", !.outcome = "libvirtError"]
                ELSE IF exited
                THEN [agent EXCEPT !.pc = "done", !.outcome = "exited",
                                   !.exitcode = exitcode]
                ELSE [agent EXCEPT !.pc = "sleep"]
    /\ UNCHANGED <<appVars, http, decoder>>

\* asyncio.sleep(0.1) ends
SleepEnds ==
    /\ agent.pc = "sleep"
    /\ agent' = [agent EXCEPT !.pc = "guest-exec-status"]
    /\ UNCHANGED <<appVars, http, decoder>>

\* _loop is suspended inside asyncio.wait_for
InLoop == agent.pc \in {"guest-exec-status", "sleep"}

\* asyncio.wait_for cancels _loop when timeout_sec has passed
TimesOut ==
    /\ InLoop
    /\ agent.waited >= agent.timeout_sec
    /\ agent' = [agent EXCEPT !.pc = "done", !.outcome = "TimeoutError"]
    /\ UNCHANGED <<appVars, http, decoder>>

\* a second passes while the call is in progress; inside wait_for no second
\* passes beyond the timeout
SecondPasses ==
    /\ agent.pc \notin {"idle", "done"}
    /\ agent.elapsed < MaxElapsed
    /\ InLoop => agent.waited < agent.timeout_sec
    /\ agent' = [agent EXCEPT !.elapsed = @ + 1,
                              !.waited = IF InLoop THEN @ + 1 ELSE @]
    /\ UNCHANGED <<appVars, http, decoder>>

InitAgent ==
    /\ DnsAtRest(0)
    /\ uuid_next = 0
    /\ tags = {}
    /\ Ec2AtRest

NextAgent ==
    \/ \E timeout_sec \in {2, DefaultTimeout} : AgentExec(timeout_sec)
    \/ \E raised \in BOOLEAN : ExecReturns(raised)
    \/ \E raised, exited \in BOOLEAN, exitcode \in {0, 1} :
          StatusReturns(raised, exited, exitcode)
    \/ SleepEnds
    \/ TimesOut
    \/ SecondPasses

SpecAgent == InitAgent /\ [][NextAgent]_vars

\* C28: a call of agent_exec never lasts longer than its timeout: while it is
\* in progress, the submission of guest-exec included, and when it has ended,
\* no more than timeout_sec seconds have passed since the call.
C28_CompletesWithinDeadline ==
    (agent.pc # "idle") => (agent.elapsed <= agent.timeout_sec)

-----------------------------------------------------------------------------
(* handlers/ips.py: the agent commands of associate_address and
   disassociate_address *)

\* the names a guest image may give the interface on the network
Ifnames == {"vif0", "eth0"}

\* The service starts as in InitIP, with guests whose interface on the
\* network is named vif0 or eth0.
InitAssoc ==
    /\ \E ifname \in Ifnames : DnsAtRestWith(0, ifname)
    /\ tags = {}
    /\ net_dhcp_start = ip_network_address + 2 + PUBLIC_IP_BLOCK_SIZE
    /\ domains = {1, 2}
    /\ volumes = {}
    /\ \E n \in {0, 1, 2} :
          /\ ip_addresses =
                IF n = 0 THEN {}
                ELSE {[allocation_id |-> 3, ip_address |-> static_ip_range[1],
                       association_id |-> IF n = 2 THEN 4 ELSE NULL,
                       instance_id |-> IF n = 2 THEN 1 ELSE NULL]}
          /\ guest_addrs = [d \in {1, 2} |->
                               IF n = 2 /\ d = 1 THEN {static_ip_range[1]} ELSE {}]
          /\ uuid_next = 2 + n
    /\ RestAtRest
    /\ ec2_tasks = <<>>
    /\ ec2_calls = 0
    /\ ec2_last = [op |-> "none", code |-> "ok", allocation_id |-> NULL,
                   association_id |-> NULL, instance_id |-> NULL, ip_address |-> NULL]

SpecAssoc == InitAssoc /\ [][NextIP]_vars

\* C29: disassociate_address goes on from its "ip addr del" to the UPDATE
\* that clears the row only when the address is no longer configured in the
\* guest of the domain the row named.
C29_ClearedAfterRemoval ==
    [][\A i \in 1..Len(ec2_tasks) :
          (/\ GuestDel(i)
           /\ ec2_tasks[i].op = "DisassociateAddress"
           /\ Len(ec2_tasks') = Len(ec2_tasks))
          => (ec2_tasks[i].ip_address \notin guest_addrs'[ec2_tasks[i].cur_instance_id])]_vars

\* the row of alloc_id names an existing domain other than instance_id
Reassociates(alloc_id, instance_id) ==
    \E row \in RowsByAllocation(alloc_id) :
       /\ row.instance_id \in domains
       /\ row.instance_id # instance_id

\* C30: an AssociateAddress request for an allocation associated with another
\* existing domain issues nothing to a guest before it is suspended at the
\* removal from that domain; the removal leaves the guest of the target alone
\* and is followed by the addition; the request goes on from the addition
\* only when the guest of the target has gained the address; and a row comes
\* to name another instance only by the UPDATE of a request that has gone on
\* from its addition.
C30_RemovalThenAdditionThenRow ==
    [][/\ \A alloc_id \in AllocationIdArgs, instance_id \in domains :
             (AssociateAddress(alloc_id, instance_id) /\ Reassociates(alloc_id, instance_id))
             => /\ Len(ec2_tasks') = Len(ec2_tasks) + 1
                /\ ec2_tasks'[Len(ec2_tasks')].pc = "cur_del"
                /\ ec2_tasks'[Len(ec2_tasks')].cur_instance_id \in domains \ {instance_id}
                /\ guest_addrs' = guest_addrs
                /\ ip_addresses' = ip_addresses
       /\ \A i \in 1..Len(ec2_tasks) :
             (/\ GuestDel(i)
              /\ ec2_tasks[i].op = "AssociateAddress"
              /\ ec2_tasks[i].cur_instance_id # ec2_tasks[i].instance_id
              /\ Len(ec2_tasks') = Len(ec2_tasks))
             => /\ ec2_tasks'[i].pc = "new_add"
                /\ guest_addrs'[ec2_tasks[i].instance_id] = guest_addrs[ec2_tasks[i].instance_id]
                /\ ip_addresses' = ip_addresses
       /\ \A i \in 1..Len(ec2_tasks) :
             (GuestAdd(i) /\ Len(ec2_tasks') = Len(ec2_tasks))
             => /\ ec2_tasks'[i].pc = "update"
                /\ ec2_tasks[i].ip_address \notin guest_addrs[ec2_tasks[i].instance_id]
                /\ ec2_tasks[i].ip_address \in guest_addrs'[ec2_tasks[i].instance_id]
                /\ ip_addresses' = ip_addresses
       /\ \A row \in ip_addresses, next \in ip_addresses' :
             (/\ next.allocation_id = row.allocation_id
              /\ next.instance_id # row.instance_id
              /\ next.instance_id # NULL)
             => \E i \in 1..Len(ec2_tasks) :
                   /\ AssociateFinish(i)
                   /\ ec2_tasks[i].pc = "update"
                   /\ ec2_tasks[i].alloc_id = next.allocation_id
                   /\ ec2_tasks[i].instance_id = next.instance_id]_vars

\* the one request received, an AssociateAddress for the address associated
\* with domain 1, has been answered: the row names domain 2, whose guest has
\* the address, and the guest of domain 1 no longer has it
C30_Witness ==
    /\ ec2_calls = 1
    /\ ec2_last.op = "AssociateAddress"
    /\ ec2_last.code = "ok"
    /\ \E row \in ip_addresses :
          /\ row.instance_id = 2
          /\ row.association_id = 5
          /\ row.ip_address \in guest_addrs[2]
          /\ row.ip_address \notin guest_addrs[1]

-----------------------------------------------------------------------------
(* handlers/volumes.py: detach_volume on a pair libvirt does not report *)

\* C32: a DetachVolume that names a domain and a volume of the pool of which
\* libvirt reports no attachment detaches nothing and leaves the tracker and
\* its timers as they were; it answers with the device and the status
\* detaching of the tracker's entry for the pair when that entry is
\* detaching, and fails with InvalidAttachment.NotFound in every other case.
C32_UnreportedPair ==
    [][\A volume \in volumes, domain \in domains :
          (/\ DetachStepOf(volume, domain)
           /\ \A a \in GetVolAttachments(volume) : a.domain # domain)
          => /\ NothingAttached
             /\ IF TrackerStatus(volume, domain) = "detaching"
                THEN /\ ec2_last'.code = "ok"
                     /\ ec2_last'.status = "detaching"
                     /\ \E k \in Known(volume, domain) : ec2_last'.device = k.device
                ELSE ec2_last'.code = "InvalidAttachment.NotFound"]_vars

\* the second of two requests, a DetachVolume of a pair that the first has
\* detached and whose callback has yet to run, was answered detaching
C32_Witness ==
    /\ ec2_calls = 2
    /\ ec2_last.op = "DetachVolume"
    /\ ec2_last.code = "ok"
    /\ ec2_last.status = "detaching"
    /\ GetVolAttachments(ec2_last.allocation_id) = {}
    /\ TrackerStatus(ec2_last.allocation_id, ec2_last.instance_id) = "detaching"
    /\ Len(timers) = 1

\* C33: whatever AttachVolume and DetachVolume requests were answered and
\* whatever callbacks have run, the tracker has at most one entry of a volume
\* that is not detached, and at most one domain has the volume as a disk.
C33_NoMultiAttach ==
    \A volume \in volumes :
       /\ Cardinality({k \in known_attachments :
                          k.volume = volume /\ k.status # "detached"}) <= 1
       /\ Cardinality({a.domain : a \in GetVolAttachments(volume)}) <= 1

\* an AttachVolume to one domain was refused for a volume that is a disk of
\* the other
C33_Witness ==
    /\ ec2_last.op = "AttachVolume"
    /\ ec2_last.code = "IncorrectState"
    /\ \E a \in vol_attachments :
          /\ a.volume = ec2_last.allocation_id
          /\ a.domain # ec2_last.instance_id
          /\ TrackerStatus(a.volume, a.domain) \in {"attaching", "attached"}

-----------------------------------------------------------------------------
(* libvirt_ebs/handlers/volumes.py: the volume service of libvirt_ebs.  It
   runs on its own, with its own _known_attachments. *)

\* att_set of libvirt_ebs _get_volume_status: the statuses of the
\* attachments libvirt reports, then the status of every entry of the
\* tracker whose pair is not among them
EbsAttSet(volume) ==
    {[instanceId |-> a.domain, status |-> GetAttachmentStatus(a)] :
        a \in GetVolAttachments(volume)}
    \cup {[instanceId |-> k.domain, status |-> k.status] :
             k \in {e \in known_attachments :
                      \A a \in GetVolAttachments(volume) :
                         ~(a.volume = e.volume /\ a.domain = e.domain)}}

\* libvirt_ebs _get_volume_status
EbsGetVolumeStatus(volume) ==
    IF \A att \in EbsAttSet(volume) : att.status = "detached" THEN "available" ELSE "in-use"

\* the error libvirt_ebs attach_volume raises before it calls attachDevice,
\* or "ok"
EbsAttachCheck(instance_id, volume_id, device) ==
    IF instance_id = NULL \/ volume_id = NULL \/ device = "" THEN "InvalidParameterValue"
    ELSE IF instance_id \notin domains \/ volume_id \notin volumes
    THEN "InvalidParameterValue"
    ELSE IF EbsGetVolumeStatus(volume_id) # "available" THEN "IncorrectState"
    ELSE "ok"

\* libvirt_ebs AttachVolume
EbsAttachVolume(instance_id, volume_id, device) ==
    /\ Ec2Call
    /\ IF EbsAttachCheck(instance_id, volume_id, device) # "ok"
       THEN /\ Ec2Reply("AttachVolume", EbsAttachCheck(instance_id, volume_id, device),
                        volume_id, NULL, instance_id, NULL)
            /\ UNCHANGED <<vol_attachments, known_attachments, timers>>
       ELSE \E outcome \in {"attached", "refused"} :
               IF outcome = "attached"
                  /\ \A a \in vol_attachments : ~(a.domain = instance_id /\ a.device = device)
               THEN /\ vol_attachments' = vol_attachments \cup
                           {[volume |-> volume_id, domain |-> instance_id, device |-> device]}
                    /\ known_attachments' =
                           KnownSet({k \in known_attachments :
                                        ~(k.volume = volume_id /\ k.status = "detached")},
                                    volume_id, instance_id, device, "attaching")
                    /\ timers' = Append(timers,
                                        Timer("attached", volume_id, instance_id, device))
                    /\ Ec2Reply("AttachVolume", "ok", volume_id, NULL, instance_id, NULL)
               ELSE /\ Ec2Reply("AttachVolume", "InternalError", volume_id, NULL,
                                instance_id, NULL)
                    /\ UNCHANGED <<vol_attachments, known_attachments, timers>>
    /\ UNCHANGED <<net_dhcp_start, domains, guest_addrs, volumes, ip_addresses, tags,
                   uuid_next, ec2_tasks, instVars>>
    /\ UNCHANGED dnsVars
    /\ DbUntouched

\* the error libvirt_ebs detach_volume raises before it calls detachDevice,
\* or "ok"
EbsDetachCheck(instance_id, volume_id) ==
    IF instance_id = NULL \/ volume_id = NULL THEN "InvalidParameterValue"
    ELSE IF instance_id \notin domains \/ volume_id \notin volumes
    THEN "InvalidParameterValue"
    ELSE IF \E a \in GetVolAttachments(volume_id) : a.domain = instance_id THEN "ok"
    ELSE "InvalidAttachment.NotFound"

\* libvirt_ebs DetachVolume
EbsDetachVolume(instance_id, volume_id) ==
    /\ Ec2Call
    /\ IF EbsDetachCheck(instance_id, volume_id) # "ok"
       THEN /\ DetachReply(EbsDetachCheck(instance_id, volume_id), volume_id, instance_id,
                           "", "")
            /\ UNCHANGED <<vol_attachments, known_attachments, timers>>
       ELSE LET attachment == CHOOSE a \in GetVolAttachments(volume_id) :
                                  a.domain = instance_id
            IN  \E outcome \in {"detached", "refused"} :
                   IF outcome = "detached"
                   THEN /\ vol_attachments' = vol_attachments \ {attachment}
                        /\ known_attachments' =
                               KnownSet(known_attachments, volume_id, instance_id,
                                        attachment.device, "detaching")
                        /\ timers' = Append(timers, Timer("detached", volume_id, instance_id,
                                                          attachment.device))
                        /\ DetachReply("ok", volume_id, instance_id, "detaching",
                                       attachment.device)
                   ELSE /\ DetachReply("InternalError", volume_id, instance_id, "", "")
                        /\ UNCHANGED <<vol_attachments, known_attachments, timers>>
    /\ UNCHANGED <<net_dhcp_start, domains, guest_addrs, volumes, ip_addresses, tags,
                   uuid_next, ec2_tasks, instVars>>
    /\ UNCHANGED dnsVars
    /\ DbUntouched

\* libvirt_ebs starts as libvirt_aws does; its callbacks are those of
\* libvirt_aws
NextEbs ==
    \/ \E instance_id \in InstanceIdArgs, volume_id \in VolumeIdArgs, device \in DeviceArgs :
          EbsAttachVolume(instance_id, volume_id, device)
    \/ \E instance_id \in InstanceIdArgs, volume_id \in VolumeIdArgs :
          EbsDetachVolume(instance_id, volume_id)
    \/ TimerFires

SpecEbs == InitVol /\ [][NextEbs]_vars

\* C34: an AttachVolume that names a domain, a device and a volume of the
\* pool all of whose attachments are detached is not refused for the state
\* of the volume, whatever the tracker records for other volumes.
C34_OtherVolumesDoNotCount ==
    [][(/\ AttachStep
        /\ ec2_last'.instance_id \in domains
        /\ ec2_last'.allocation_id \in volumes
        /\ ~InUse(ec2_last'.allocation_id))
       => (ec2_last'.code # "IncorrectState")]_vars

-----------------------------------------------------------------------------
(* handlers/instances.py: the disks of a terminated instance *)

\* C35: the disks of an instance are deleted only with its domain: an
\* instance that has its disks and whose domain stays defined through a step
\* has its disks after the step.
C35_DisksOnlyWithDomain ==
    [][\A instance_id \in domains \cap instance_disks :
          (instance_id \in domains') => (instance_id \in instance_disks')]_vars

-----------------------------------------------------------------------------
(* handlers/ips.py: associate_address among concurrent requests *)

\* C36: when AssociateAddress answers with an association id, ip_addresses
\* has a row with that association id and the instance of the request.
C36_AnsweredAssociationRecorded ==
    [][\A i \in 1..Len(ec2_tasks) :
          AssociateFinish(i) =>
             \E row \in ip_addresses' :
                /\ row.association_id = ec2_last'.association_id
                /\ row.instance_id = ec2_last'.instance_id
                /\ row.allocation_id = ec2_last'.allocation_id]_vars

\* AssociateAddress requests alone, for the allocations of the table
NextAssociate ==
    \/ \E alloc_id \in AllocationIdArgs, instance_id \in InstanceIdArgs :
          AssociateAddress(alloc_id, instance_id)
    \/ \E i \in 1..Len(ec2_tasks) : GuestDel(i)
    \/ \E i \in 1..Len(ec2_tasks) : GuestAdd(i)
    \/ \E i \in 1..Len(ec2_tasks) : AssociateFinish(i)

SpecAssociate == InitIP /\ [][NextAssociate]_vars

\* C37: once every request has been answered, an address of ip_addresses is
\* configured in the guest of at most one domain, and in no other guest than
\* that of the instance its row records.
C37_OneGuestAsRecorded ==
    (ec2_tasks = <<>>) =>
        \A row \in ip_addresses :
           \A d \in domains :
              (row.ip_address \in guest_addrs[d]) => (row.instance_id = d)

-----------------------------------------------------------------------------
(* handlers/dns.py: the zone a change batch is addressed to *)

\* C38: a ChangeResourceRecordSets addressed to an existing sub-zone Z whose
\* batch names a record of the network's domain outside Z (in the parent zone
\* or in a sibling sub-zone) is rejected and leaves the records of the network
\* as they were.
C38_ChangesStayInZone ==
    [][(/\ dns_calls' = dns_calls + 1
        /\ dns_last'.op = "ChangeResourceRecordSets"
        /\ dns_last'.zone \in ZoneIds
        /\ \E n \in 1..Len(dns_last'.batch) :
              /\ in_zone(dns_last'.batch[n].Name, dns_domain)
              /\ ~in_zone(dns_last'.batch[n].Name, SubzoneName(dns_last'.zone)))
       => /\ dns_last'.code # "ok"
          /\ <<net_hosts, net_txts, net_srvs>>' = <<net_hosts, net_txts, net_srvs>>]_vars

\* the (type, name) keys a batch names.  libvirt stores an SRV record under
\* its service and protocol, so a name reads back as _service._protocol: every
\* SRV key counts as named by a batch that changes an SRV record.
NamedKeys(changes) ==
    {<<changes[i].Type, fqdn(changes[i].Name)>> : i \in 1..Len(changes)}
        \cup {k \in DKeys(ReadBack) \cup DKeys(ReadBackNext) :
                 k[1] = "SRV" /\ \E i \in 1..Len(changes) : changes[i].Type = "SRV"}

\* C39: a successful change batch leaves every record it does not name as it
\* was: each (type, name) key absent from the batch reads back with the value
\* set it had before, also when it shares an address with a changed A record.
C39_UnnamedKeysUnchanged ==
    [][(ChangeStep /\ dns_last'.code = "ok") =>
          \A k \in (DKeys(ReadBack) \cup DKeys(ReadBackNext))
                      \ NamedKeys(dns_last'.batch) :
              /\ DHas(ReadBackNext, k) <=> DHas(ReadBack, k)
              /\ DGet(ReadBackNext, k, {}) = DGet(ReadBack, k, {})]_vars

-----------------------------------------------------------------------------
(* handlers/ips.py: the table and the guests between requests *)

\* C40: whenever no elastic IP handler is in flight, an address is configured
\* in the guest of an instance exactly when its ip_addresses row records that
\* instance, also after an AssociateAddress that failed while moving the
\* address and after a DisassociateAddress whose removal did not take effect.
C40_ShadowAgreesWithGuests ==
    (ec2_tasks = <<>>) =>
        /\ \A d \in domains :
              \A a \in guest_addrs[d] :
                 \E row \in ip_addresses :
                    row.ip_address = a /\ row.instance_id = d
        /\ \A row \in ip_addresses :
              (row.instance_id \in domains) =>
                  (row.ip_address \in guest_addrs[row.instance_id])

====
